---- MODULE Spec2Model ----
(***************************************************************************)
(* A model of three subsystems of the hypercube validator node:            *)
(*   - the write stage (src/src/write_stage.rs): the writer thread, its    *)
(*     entry channel, ledger, forward channel and the rotation truncation  *)
(*     find_leader_rotation_index;                                         *)
(*   - the FinPlan contract engine (src/src/fin_plan_program.rs);          *)
(*   - the batched datagram receiver (src/src/recvmmsg.rs).                *)
(* Each subsystem has its own specification over the shared variable list; *)
(* a specification leaves the variables of the other subsystems at their   *)
(* idle values.                                                            *)
(***************************************************************************)
EXTENDS Integers, Sequences, FiniteSets, TLC

(***************************************************************************)
(* Bounds of the model.                                                    *)
(***************************************************************************)
\* largest rotation interval explored
MaxInterval == 3
\* largest starting entry_height / largest h handed to the truncation
MaxStart == 1
\* largest batch (Vec<Entry>) the upstream sends in one message
MaxBatch == 6
\* total number of entries the upstream produces
MaxSent == 6
\* number of rotation boundaries the schedule of cluster state covers
MaxEpochs == 3
\* total number of batches the upstream sends
MaxBatches == 3
\* number of ledger writes that fail
MaxWriteErrors == 1
\* largest userdata buffer of an account
MaxUserdata == 200
\* number of transactions processed in one run of the engine
MaxTxs == 3
\* largest token amount of an initial account and of an instruction
MaxTokens == 2
\* number of serialize calls made on one buffer
MaxSerCalls == 3
\* integers at or beyond this value are not told apart
WideValue == 1000000000

\* a Pubkey is 32 bytes
PubkeyLen == 32

Min(a, b) == IF a < b THEN a ELSE b

\* recvmmsg.rs:8
NUM_RCVMMSGS == 16

\* datagrams the network delivers, recv_mmsg calls and failing socket
\* operations explored on one socket
MaxDatagrams == 26
MaxDbrCalls == 2
MaxFaults == 1

(***************************************************************************)
(* Write stage: cluster state (leader schedule).                           *)
(***************************************************************************)
\* what get_scheduled_leader answers: this node, another node, or None
Leaders == {"me", "other", "none"}

\* the heights for which cluster state holds a scheduled leader
Boundaries(I) == {e * I : e \in 0..(MaxEpochs - 1)}

\* the schedules of cluster state for interval I: a finite map from boundary
\* heights to leaders
Schedules(I) == [Boundaries(I) -> Leaders]

\* a height without an entry in the schedule has no scheduled leader (None)
get_scheduled_leader(L, height) ==
    IF height \in DOMAIN L THEN L[height] ELSE "none"

(***************************************************************************)
(* find_leader_rotation_index (write_stage.rs:34-75).                      *)
(* The loop is modelled by three pieces: the boundary check at the top of  *)
(* the body, the exit test i == new_entries_length, and the advance of i.  *)
(***************************************************************************)
\* the boundary test taking an unset leader for no rotation
is_leader_rotation_to_known_leader(L, I, h, i) ==
    /\ (h + i) % I = 0
    /\ get_scheduled_leader(L, h + i) \notin {"me", "none"}

\* lines 47-55: at a multiple of the interval, is the scheduled leader
\* somebody else (or unset)?
is_leader_rotation_at(L, I, h, i) ==
    /\ (h + i) % I = 0
    /\ get_scheduled_leader(L, h + i) # "me"

\* the distance taken for the entries since the last boundary
entries_since_leader_rotation(I, h) == h % I

\* lines 62-63: computed from entry_height alone, not from entry_height + i
entries_until_leader_rotation(I, h) == I - (h % I)

\* lines 66-69
advance_index(I, h, N, i) == i + Min(entries_until_leader_rotation(I, h), N - i)

RECURSIVE find_leader_rotation_loop(_, _, _, _, _)
find_leader_rotation_loop(L, I, h, N, i) ==
    IF is_leader_rotation_at(L, I, h, i)
    THEN [k |-> i, is_leader_rotation |-> TRUE]
    ELSE IF i = N
         THEN [k |-> i, is_leader_rotation |-> FALSE]
         ELSE find_leader_rotation_loop(L, I, h, N, advance_index(I, h, N, i))

\* the whole function: the truncated batch and the rotation flag
find_leader_rotation_index(L, I, h, new_entries) ==
    LET r == find_leader_rotation_loop(L, I, h, Len(new_entries), 0)
    IN  [new_entries |-> SubSeq(new_entries, 1, r.k),
         is_leader_rotation |-> r.is_leader_rotation]

(***************************************************************************)
(* FinPlan contract engine: bytes.                                         *)
(* Account userdata is a sequence of bytes.  The encoders below follow the *)
(* bincode layout that test_sdk_serialize pins down                        *)
(* (fin_plan_program.rs:503-569): little-endian fixed-width integers, a    *)
(* u32 tag for an enum variant, a u64 length before a string, one byte for *)
(* a bool and for the tag of an Option.                                    *)
(***************************************************************************)
Zeros(n) == [i \in 1..n |-> 0]

\* the i-th little-endian byte (i >= 1) of a non-negative integer below 2^31
LEByte(n, i) ==
    CASE i = 1 -> n % 256
      [] i = 2 -> (n \div 256) % 256
      [] i = 3 -> (n \div 65536) % 256
      [] i = 4 -> (n \div 16777216) % 256
      [] OTHER -> 0

EncodeU32(n) == [i \in 1..4 |-> LEByte(n, i)]
EncodeU64(n) == [i \in 1..8 |-> LEByte(n, i)]
\* two's complement: the bytes of a negative n are the inverted bytes of -n-1
EncodeI64(n) ==
    IF n >= 0 THEN [i \in 1..8 |-> LEByte(n, i)]
    ELSE [i \in 1..8 |-> 255 - LEByte(-n - 1, i)]

\* Decoding reads a value at an offset o of the bytes b (the value occupies
\* b[o+1] onwards).  Integers beyond the range the model represents read as
\* WideValue.
LowValueAt(b, o) == b[o + 1] + 256 * b[o + 2] + 65536 * b[o + 3] + 16777216 * b[o + 4]

U32At(b, o) == IF b[o + 4] < 128 THEN LowValueAt(b, o) ELSE WideValue

U64At(b, o) ==
    IF b[o + 4] < 128 /\ \A i \in 5..8 : b[o + i] = 0
    THEN LowValueAt(b, o) ELSE WideValue

I64At(b, o) ==
    IF b[o + 4] < 128 /\ \A i \in 5..8 : b[o + i] = 0
    THEN LowValueAt(b, o)
    ELSE IF b[o + 4] >= 128 /\ \A i \in 5..8 : b[o + i] = 255
         THEN -(  (255 - b[o + 1]) + 256 * (255 - b[o + 2])
                + 65536 * (255 - b[o + 3]) + 16777216 * (255 - b[o + 4])) - 1
         ELSE WideValue

\* a Pubkey is its 32 bytes
KeyAt(b, o) == SubSeq(b, o + 1, o + PubkeyLen)

\* a DateTime<Utc> travels as its RFC 3339 string behind a u64 length.  The
\* model's dates are the ten instants 2016-07-08T09:10:1dZ, d = 0..9; any
\* other string is a decoding error.
DatePrefix == <<50, 48, 49, 54, 45, 48, 55, 45, 48, 56, 84, 48, 57, 58, 49, 48, 58, 49>>
DateString(d) == DatePrefix \o <<48 + d, 90>>
DateLen == Len(DatePrefix) + 2
EncodeDateTime(d) == EncodeU64(DateLen) \o DateString(d)
DateOkAt(b, o) ==
    /\ Len(b) >= o + 8
    /\ U64At(b, o) = DateLen
    /\ Len(b) >= o + 8 + DateLen
    /\ SubSeq(b, o + 9, o + 8 + Len(DatePrefix)) = DatePrefix
    /\ b[o + 8 + DateLen - 1] \in 48..57
    /\ b[o + 8 + DateLen] = 90
DateAt(b, o) == b[o + 8 + DateLen - 1] - 48

(***************************************************************************)
(* FinPlan, Condition, Payment (fin_plan.rs, not part of the sources at    *)
(* hand): the payment plan tree and its two operations.                    *)
(***************************************************************************)
Payment(tokens, to) == [tokens |-> tokens, to |-> to]
Timestamp(dt, from) == [tag |-> "Timestamp", dt |-> dt, from |-> from]
Signature(from) == [tag |-> "Signature", dt |-> 0, from |-> from]
Pay(p) == [tag |-> "Pay", payment |-> p]
After(c, p) == [tag |-> "After", cond |-> c, payment |-> p]
Or(c1, p1, c2, p2) == [tag |-> "Or", cond1 |-> c1, pay1 |-> p1, cond2 |-> c2, pay2 |-> p2]
And(c1, c2, p) == [tag |-> "And", cond1 |-> c1, cond2 |-> c2, payment |-> p]

\* Witness::Timestamp(dt) and Witness::Signature
WitnessTimestamp(dt) == [tag |-> "Timestamp", dt |-> dt]
WitnessSignature == [tag |-> "Signature", dt |-> 0]

is_satisfied(cond, witness, from) ==
    /\ cond.tag = witness.tag
    /\ cond.from = from
    /\ cond.tag = "Timestamp" => cond.dt <= witness.dt

\* the plan after the witness: one step of reduction
apply_witness(plan, witness, from) ==
    CASE plan.tag = "After" ->
            IF is_satisfied(plan.cond, witness, from) THEN Pay(plan.payment)
            ELSE plan
      [] plan.tag = "Or" ->
            IF is_satisfied(plan.cond1, witness, from) THEN Pay(plan.pay1)
            ELSE IF is_satisfied(plan.cond2, witness, from) THEN Pay(plan.pay2)
            ELSE plan
      [] plan.tag = "And" ->
            IF is_satisfied(plan.cond1, witness, from)
            THEN After(plan.cond2, plan.payment)
            ELSE IF is_satisfied(plan.cond2, witness, from)
            THEN After(plan.cond1, plan.payment)
            ELSE plan
      [] OTHER -> plan

\* Option<Payment> as a sequence of at most one element
final_payment(plan) == IF plan.tag = "Pay" THEN <<plan.payment>> ELSE <<>>

EncodePayment(p) == EncodeI64(p.tokens) \o p.to
EncodeCondition(c) ==
    IF c.tag = "Timestamp"
    THEN EncodeU32(0) \o EncodeDateTime(c.dt) \o c.from
    ELSE EncodeU32(1) \o c.from
EncodeFinPlan(plan) ==
    CASE plan.tag = "Pay" -> EncodeU32(0) \o EncodePayment(plan.payment)
      [] plan.tag = "After" ->
            EncodeU32(1) \o EncodeCondition(plan.cond) \o EncodePayment(plan.payment)
      [] plan.tag = "Or" ->
            EncodeU32(2) \o EncodeCondition(plan.cond1) \o EncodePayment(plan.pay1)
                         \o EncodeCondition(plan.cond2) \o EncodePayment(plan.pay2)
      [] plan.tag = "And" ->
            EncodeU32(3) \o EncodeCondition(plan.cond1) \o EncodeCondition(plan.cond2)
                         \o EncodePayment(plan.payment)

\* a decoder returns [ok, val]; DecFail is a decoding error
DecFail == [ok |-> FALSE, val |-> <<>>]
DecOk(v) == [ok |-> TRUE, val |-> v]

PaymentLen == 8 + PubkeyLen
PaymentOkAt(b, o) == Len(b) >= o + PaymentLen
PaymentAt(b, o) == Payment(I64At(b, o), KeyAt(b, o + 8))

\* a Condition: tag 0 is Timestamp(DateTime, Pubkey), tag 1 is Signature(Pubkey)
CondOkAt(b, o) ==
    /\ Len(b) >= o + 4
    /\ \/ /\ U32At(b, o) = 0
          /\ DateOkAt(b, o + 4)
          /\ Len(b) >= o + 4 + 8 + DateLen + PubkeyLen
       \/ /\ U32At(b, o) = 1
          /\ Len(b) >= o + 4 + PubkeyLen
\* the offset just after the Condition at o
CondEnd(b, o) ==
    IF U32At(b, o) = 0 THEN o + 4 + 8 + DateLen + PubkeyLen ELSE o + 4 + PubkeyLen
CondAt(b, o) ==
    IF U32At(b, o) = 0
    THEN Timestamp(DateAt(b, o + 4), KeyAt(b, o + 4 + 8 + DateLen))
    ELSE Signature(KeyAt(b, o + 4))

\* a FinPlan: tag 0 Pay, 1 After, 2 Or, 3 And
PlanOkAt(b, o) ==
    /\ Len(b) >= o + 4
    /\ \/ /\ U32At(b, o) = 0
          /\ PaymentOkAt(b, o + 4)
       \/ /\ U32At(b, o) = 1
          /\ CondOkAt(b, o + 4)
          /\ PaymentOkAt(b, CondEnd(b, o + 4))
       \/ /\ U32At(b, o) = 2
          /\ CondOkAt(b, o + 4)
          /\ PaymentOkAt(b, CondEnd(b, o + 4))
          /\ CondOkAt(b, CondEnd(b, o + 4) + PaymentLen)
          /\ PaymentOkAt(b, CondEnd(b, CondEnd(b, o + 4) + PaymentLen))
       \/ /\ U32At(b, o) = 3
          /\ CondOkAt(b, o + 4)
          /\ CondOkAt(b, CondEnd(b, o + 4))
          /\ PaymentOkAt(b, CondEnd(b, CondEnd(b, o + 4)))
PlanAt(b, o) ==
    CASE U32At(b, o) = 0 -> Pay(PaymentAt(b, o + 4))
      [] U32At(b, o) = 1 ->
            After(CondAt(b, o + 4), PaymentAt(b, CondEnd(b, o + 4)))
      [] U32At(b, o) = 2 ->
            Or(CondAt(b, o + 4), PaymentAt(b, CondEnd(b, o + 4)),
               CondAt(b, CondEnd(b, o + 4) + PaymentLen),
               PaymentAt(b, CondEnd(b, CondEnd(b, o + 4) + PaymentLen)))
      [] OTHER ->
            And(CondAt(b, o + 4), CondAt(b, CondEnd(b, o + 4)),
                PaymentAt(b, CondEnd(b, CondEnd(b, o + 4))))

(***************************************************************************)
(* FinPlanState (fin_plan_program.rs:26-30) and its framing.               *)
(***************************************************************************)
\* pending_fin_plan is an Option: <<>> is None, <<plan>> is Some(plan)
FinPlanState(initialized, pending) ==
    [initialized |-> initialized, pending_fin_plan |-> pending]

\* #[derive(Default)]
DefaultState == FinPlanState(FALSE, <<>>)

is_pending(state) == state.pending_fin_plan # <<>>

\* bincode::serialize of a FinPlanState
EncodeState(state) ==
    <<IF state.initialized THEN 1 ELSE 0>>
    \o (IF state.pending_fin_plan = <<>> THEN <<0>>
        ELSE <<1>> \o EncodeFinPlan(state.pending_fin_plan[1]))

serialized_size(state) == Len(EncodeState(state))

\* bincode::deserialize of a FinPlanState from a slice (bytes after the value
\* are not looked at): a bool byte and an Option tag byte, each 0 or 1, then
\* the plan
DecodeState(b) ==
    IF /\ Len(b) >= 2
       /\ b[1] <= 1
       /\ b[2] <= 1
       /\ b[2] = 1 => PlanOkAt(b, 2)
    THEN DecOk(FinPlanState(b[1] = 1, IF b[2] = 1 THEN <<PlanAt(b, 2)>> ELSE <<>>))
    ELSE DecFail

\* results of the engine: Ok, an error of FinPlanError (with its key, or the
\* empty sequence for an error without one), or a panic of the thread
Ok == [kind |-> "Ok", key |-> <<>>]
Err(kind, key) == [kind |-> kind, key |-> key]
Panic == [kind |-> "Panic", key |-> <<>>]

\* overwrite buf[from+1 .. from+Len(bytes)] with bytes
WriteAt(buf, from, bytes) ==
    [i \in 1..Len(buf) |->
        IF i > from /\ i <= from + Len(bytes) THEN bytes[i - from] ELSE buf[i]]

\* serialize with the length prefix taken from the buffer instead of the body
serialize_prefix_of_buffer(state, outx_creatort) ==
    LET len == serialized_size(state) IN
    IF Len(outx_creatort) < len
    THEN [result |-> Err("UserdataTooSmall", <<>>), buf |-> outx_creatort]
    ELSE IF Len(outx_creatort) < 8
    THEN [result |-> Panic, buf |-> outx_creatort]
    ELSE LET prefixed == WriteAt(outx_creatort, 0, EncodeU64(Len(outx_creatort))) IN
         IF Len(outx_creatort) < 8 + len
         THEN [result |-> Panic, buf |-> prefixed]
         ELSE [result |-> Ok, buf |-> WriteAt(prefixed, 8, EncodeState(state))]

\* FinPlanState::serialize (fin_plan_program.rs:197-217).  The size test
\* compares the buffer with the body length; the slices [..8] and [8..8+len]
\* panic when the buffer is shorter than they reach, the second one after
\* the length prefix has been written.
serialize(state, outx_creatort) ==
    LET len == serialized_size(state) IN
    IF Len(outx_creatort) < len
    THEN [result |-> Err("UserdataTooSmall", <<>>), buf |-> outx_creatort]
    ELSE IF Len(outx_creatort) < 8
    THEN [result |-> Panic, buf |-> outx_creatort]
    ELSE LET prefixed == WriteAt(outx_creatort, 0, EncodeU64(len)) IN
         IF Len(outx_creatort) < 8 + len
         THEN [result |-> Panic, buf |-> prefixed]
         ELSE [result |-> Ok, buf |-> WriteAt(prefixed, 8, EncodeState(state))]

\* FinPlanState::deserialize (fin_plan_program.rs:219-231)
deserialize(input) ==
    IF Len(input) < 8 THEN DecFail
    ELSE IF U64At(input, 0) < 2 THEN DecFail
    ELSE IF Len(input) < 8 + U64At(input, 0) THEN DecFail
    ELSE DecodeState(SubSeq(input, 9, 8 + U64At(input, 0)))

(***************************************************************************)
(* The engine (fin_plan_program.rs:46-264).  accounts is the account       *)
(* vector of the call, keys the keys of the transaction; Rust's index 0 is *)
(* index 1 here.  Every operation returns its Result together with the     *)
(* accounts as it leaves them.                                             *)
(***************************************************************************)
Account(tokens, userdata) == [tokens |-> tokens, userdata |-> userdata]

\* the Instruction decoded from tx.userdata; "Invalid" is userdata that does
\* not decode
NewContract(tokens, plan) ==
    [tag |-> "NewContract", tokens |-> tokens, fin_plan |-> <<plan>>, dt |-> 0]
ApplyTimestamp(dt) ==
    [tag |-> "ApplyTimestamp", tokens |-> 0, fin_plan |-> <<>>, dt |-> dt]
ApplySignature == [tag |-> "ApplySignature", tokens |-> 0, fin_plan |-> <<>>, dt |-> 0]
NewVote == [tag |-> "NewVote", tokens |-> 0, fin_plan |-> <<>>, dt |-> 0]
InvalidUserdata == [tag |-> "Invalid", tokens |-> 0, fin_plan |-> <<>>, dt |-> 0]

Transaction(keys, instruction) == [keys |-> keys, instruction |-> instruction]

Outcome(result, accounts) == [result |-> result, accounts |-> accounts]

\* settle_payment that moves the tokens before it looks at keys[2]
settle_payment_pays_before_bind(state, keys, accounts, plan) ==
    IF final_payment(plan) = <<>>
    THEN [result |-> Ok, accounts |-> accounts,
          state |-> FinPlanState(state.initialized, <<plan>>)]
    ELSE IF Len(keys) < 3
    THEN [result |-> Err("DestinationMissing", plan.payment.to),
          accounts |-> accounts,
          state |-> FinPlanState(state.initialized, <<plan>>)]
    ELSE [result |-> IF plan.payment.to # keys[3]
                     THEN Err("DestinationMissing", plan.payment.to) ELSE Ok,
          accounts |-> [accounts EXCEPT
                           ![2].tokens = @ - plan.payment.tokens,
                           ![3].tokens = @ + plan.payment.tokens],
          state |-> FinPlanState(state.initialized, <<>>)]

\* settle_payment that completes the contract whatever the witness made of
\* the plan
settle_payment_completes_always(state, keys, accounts, plan) ==
    IF final_payment(plan) = <<>>
    THEN [result |-> Ok, accounts |-> accounts,
          state |-> FinPlanState(state.initialized, <<>>)]
    ELSE IF Len(keys) < 3 \/ plan.payment.to # keys[3]
    THEN [result |-> Err("DestinationMissing", plan.payment.to),
          accounts |-> accounts,
          state |-> FinPlanState(state.initialized, <<plan>>)]
    ELSE [result |-> Ok,
          accounts |-> [accounts EXCEPT
                           ![2].tokens = @ - plan.payment.tokens,
                           ![3].tokens = @ + plan.payment.tokens],
          state |-> FinPlanState(state.initialized, <<>>)]

\* settle_payment that credits the destination and leaves the contract
\* account's tokens where they are
settle_payment_credits_only(state, keys, accounts, plan) ==
    IF final_payment(plan) = <<>>
    THEN [result |-> Ok, accounts |-> accounts,
          state |-> FinPlanState(state.initialized, <<plan>>)]
    ELSE IF Len(keys) < 3 \/ plan.payment.to # keys[3]
    THEN [result |-> Err("DestinationMissing", plan.payment.to),
          accounts |-> accounts,
          state |-> FinPlanState(state.initialized, <<plan>>)]
    ELSE [result |-> Ok,
          accounts |-> [accounts EXCEPT ![3].tokens = @ + plan.payment.tokens],
          state |-> FinPlanState(state.initialized, <<>>)]

\* settle_payment that pays and leaves the paid plan pending
settle_payment_keeps_pending(state, keys, accounts, plan) ==
    IF final_payment(plan) = <<>>
    THEN [result |-> Ok, accounts |-> accounts,
          state |-> FinPlanState(state.initialized, <<plan>>)]
    ELSE IF Len(keys) < 3 \/ plan.payment.to # keys[3]
    THEN [result |-> Err("DestinationMissing", plan.payment.to),
          accounts |-> accounts,
          state |-> FinPlanState(state.initialized, <<plan>>)]
    ELSE [result |-> Ok,
          accounts |-> [accounts EXCEPT
                           ![2].tokens = @ - plan.payment.tokens,
                           ![3].tokens = @ + plan.payment.tokens],
          state |-> FinPlanState(state.initialized, <<plan>>)]

\* lines 59-67 and 87-95: the plan after the witness has a final payment or
\* not.  keys[2] is read when keys.len() >= 2, so a transaction with exactly
\* two keys panics here.
settle_payment(state, keys, accounts, plan) ==
    IF final_payment(plan) = <<>>
    THEN [result |-> Ok, accounts |-> accounts,
          state |-> FinPlanState(state.initialized, <<plan>>)]
    ELSE IF Len(keys) < 2
    THEN [result |-> Err("DestinationMissing", plan.payment.to),
          accounts |-> accounts,
          state |-> FinPlanState(state.initialized, <<plan>>)]
    ELSE IF Len(keys) < 3
    THEN [result |-> Panic, accounts |-> accounts,
          state |-> FinPlanState(state.initialized, <<plan>>)]
    ELSE IF plan.payment.to # keys[3]
    THEN [result |-> Err("DestinationMissing", plan.payment.to),
          accounts |-> accounts,
          state |-> FinPlanState(state.initialized, <<plan>>)]
    ELSE [result |-> Ok,
          accounts |-> [accounts EXCEPT
                           ![2].tokens = @ - plan.payment.tokens,
                           ![3].tokens = @ + plan.payment.tokens],
          state |-> FinPlanState(state.initialized, <<>>)]

\* FinPlanState::apply_signature (lines 48-69)
apply_signature(state, keys, accounts) ==
    IF state.pending_fin_plan = <<>>
    THEN [result |-> Ok, accounts |-> accounts, state |-> state]
    ELSE settle_payment(state, keys, accounts,
            apply_witness(state.pending_fin_plan[1], WitnessSignature, keys[1]))

\* FinPlanState::apply_timestamp (lines 73-97)
apply_timestamp(state, keys, accounts, dt) ==
    IF state.pending_fin_plan = <<>>
    THEN [result |-> Ok, accounts |-> accounts, state |-> state]
    ELSE settle_payment(state, keys, accounts,
            apply_witness(state.pending_fin_plan[1], WitnessTimestamp(dt), keys[1]))

\* a debit phase that looks at the instruction before the source account
apply_debits_instruction_first(tx, accounts, instruction) ==
    IF instruction.tag = "NewContract" /\ instruction.tokens < 0
    THEN Outcome(Err("NegativeTokens", <<>>), accounts)
    ELSE IF accounts[1].userdata # <<>>
    THEN Outcome(Err("SourceIsPendingContract", tx.keys[1]), accounts)
    ELSE IF instruction.tag = "NewContract"
    THEN IF accounts[1].tokens < instruction.tokens
         THEN Outcome(Err("InsufficientFunds", tx.keys[1]), accounts)
         ELSE Outcome(Ok, [accounts EXCEPT ![1].tokens = @ - instruction.tokens])
    ELSE Outcome(Ok, accounts)

\* FinPlanState::apply_debits_to_fin_plan_state (lines 101-127)
apply_debits_to_fin_plan_state(tx, accounts, instruction) ==
    IF accounts[1].userdata # <<>>
    THEN Outcome(Err("SourceIsPendingContract", tx.keys[1]), accounts)
    ELSE IF instruction.tag = "NewContract"
    THEN IF instruction.tokens < 0
         THEN Outcome(Err("NegativeTokens", <<>>), accounts)
         ELSE IF accounts[1].tokens < instruction.tokens
         THEN Outcome(Err("InsufficientFunds", tx.keys[1]), accounts)
         ELSE Outcome(Ok, [accounts EXCEPT ![1].tokens = @ - instruction.tokens])
    ELSE Outcome(Ok, accounts)

\* state.serialize(&mut accounts[1].userdata): the result and the buffer
store_state(accounts, written) ==
    Outcome(written.result, [accounts EXCEPT ![2].userdata = written.buf])

\* lines 165-167 and 182-184: `?` on the witness routine, then serialize
commit_witness(applied) ==
    IF applied.result # Ok
    THEN Outcome(applied.result, applied.accounts)
    ELSE store_state(applied.accounts,
                     serialize(applied.state, applied.accounts[2].userdata))

\* create_contract that does not look at the existing state
create_contract_overwrites(tx, accounts, instruction, existing) ==
    store_state([accounts EXCEPT ![2].tokens = @ + instruction.tokens],
                serialize(FinPlanState(TRUE, instruction.fin_plan),
                          accounts[2].userdata))

\* create_contract that stores the state and credits nothing
create_contract_without_credit(tx, accounts, instruction, existing) ==
    IF existing.ok /\ existing.val.initialized
    THEN Outcome(Err("ContractAlreadyExists", tx.keys[2]), accounts)
    ELSE store_state(accounts,
                     serialize(FinPlanState(TRUE, instruction.fin_plan),
                               accounts[2].userdata))

\* lines 143-153: a non-trivial NewContract, given what deserialize made of
\* the contract account
create_contract(tx, accounts, instruction, existing) ==
    IF existing.ok /\ existing.val.initialized
    THEN Outcome(Err("ContractAlreadyExists", tx.keys[2]), accounts)
    ELSE store_state([accounts EXCEPT ![2].tokens = @ + instruction.tokens],
                     serialize(FinPlanState(TRUE, instruction.fin_plan),
                               accounts[2].userdata))

\* a witness arm without the is_pending test
witness_contract_without_pending_test(tx, accounts, instruction, existing) ==
    IF ~existing.ok
    THEN Outcome(Err("UninitializedContract", tx.keys[2]), accounts)
    ELSE IF ~existing.val.initialized
    THEN Outcome(Err("UninitializedContract", tx.keys[2]), accounts)
    ELSE IF instruction.tag = "ApplyTimestamp"
    THEN commit_witness(apply_timestamp(existing.val, tx.keys, accounts,
                                        instruction.dt))
    ELSE commit_witness(apply_signature(existing.val, tx.keys, accounts))

\* a witness arm that takes undecodable userdata for the default state
witness_contract_default_state(tx, accounts, instruction, existing) ==
    IF ~existing.ok \/ ~is_pending(existing.val)
    THEN Outcome(Err("ContractNotPending", tx.keys[2]), accounts)
    ELSE IF ~existing.val.initialized
    THEN Outcome(Err("UninitializedContract", tx.keys[2]), accounts)
    ELSE IF instruction.tag = "ApplyTimestamp"
    THEN commit_witness(apply_timestamp(existing.val, tx.keys, accounts,
                                        instruction.dt))
    ELSE commit_witness(apply_signature(existing.val, tx.keys, accounts))

\* lines 157-171 and 174-188: a witness instruction, given what deserialize
\* made of the contract account
witness_contract(tx, accounts, instruction, existing) ==
    IF ~existing.ok
    THEN Outcome(Err("UninitializedContract", tx.keys[2]), accounts)
    ELSE IF ~is_pending(existing.val)
    THEN Outcome(Err("ContractNotPending", tx.keys[2]), accounts)
    ELSE IF ~existing.val.initialized
    THEN Outcome(Err("UninitializedContract", tx.keys[2]), accounts)
    ELSE IF instruction.tag = "ApplyTimestamp"
    THEN commit_witness(apply_timestamp(existing.val, tx.keys, accounts,
                                        instruction.dt))
    ELSE commit_witness(apply_signature(existing.val, tx.keys, accounts))

\* FinPlanState::apply_credits_to_fin_plan_state (lines 131-196)
apply_credits_to_fin_plan_state(tx, accounts, instruction) ==
    CASE instruction.tag = "NewContract" ->
            IF final_payment(instruction.fin_plan[1]) # <<>>
            THEN Outcome(Ok, [accounts EXCEPT ![2].tokens =
                                 @ + instruction.fin_plan[1].payment.tokens])
            ELSE create_contract(tx, accounts, instruction,
                                 deserialize(accounts[2].userdata))
      [] instruction.tag \in {"ApplyTimestamp", "ApplySignature"} ->
            witness_contract(tx, accounts, instruction,
                             deserialize(accounts[2].userdata))
      [] OTHER -> Outcome(Ok, accounts)

\* line 245: and_then
and_then_credits(tx, instruction, debited) ==
    IF debited.result # Ok THEN debited
    ELSE apply_credits_to_fin_plan_state(tx, debited.accounts, instruction)

\* FinPlanState::process_transaction (lines 238-250)
process_transaction(tx, accounts) ==
    IF tx.instruction.tag = "Invalid"
    THEN Outcome(Err("UserdataDeserializeFailure", <<>>), accounts)
    ELSE and_then_credits(tx, tx.instruction,
            apply_debits_to_fin_plan_state(tx, accounts, tx.instruction))

\* line 254: bincode's deserialize on the whole userdata, not
\* FinPlanState::deserialize: the 8 bytes of the length prefix are read as the
\* start of the state
balance_of(account, decoded) ==
    IF decoded.ok /\ is_pending(decoded.val) THEN 0 ELSE account.tokens

\* FinPlanState::get_balance (lines 253-264)
get_balance(account) == balance_of(account, DecodeState(account.userdata))

(***************************************************************************)
(* The keys, plans and states the engine is exercised with.                *)
(***************************************************************************)
Key(n) == [i \in 1..PubkeyLen |-> n]
\* the three parties of the tests: from, contract and to
FromKey == Key(1)
ContractKey == Key(2)
ToKey == Key(3)
Pubkeys == {FromKey, ContractKey, ToKey}

\* the plans of the tests (fin_plan_new, on_date, on_date with cancel) and
\* their neighbours: a payment right away, After a timestamp or a signature,
\* the cancelable Or, and the two-condition And
FinPlans ==
    { Pay(Payment(1, ToKey)),
      Pay(Payment(2, ToKey)),
      After(Timestamp(1, FromKey), Payment(1, ToKey)),
      After(Signature(FromKey), Payment(1, ToKey)),
      After(Signature(FromKey), Payment(2, ToKey)),
      Or(Timestamp(1, FromKey), Payment(1, ToKey),
         Signature(FromKey), Payment(1, FromKey)),
      And(Timestamp(1, FromKey), Signature(FromKey), Payment(1, ToKey)) }

\* the userdata capacities of the contract account: none, one that holds the
\* body of the smallest pending state but not its length prefix, and one that
\* holds every state
ContractCapacities ==
    {0, serialized_size(FinPlanState(TRUE, <<After(Signature(FromKey), Payment(1, ToKey))>>)) + 2,
     MaxUserdata}

\* what the contract account's userdata holds at the start: zeros, as
\* Account::new leaves it, or what a serialize that panicked at its second
\* slice (lines 212-213) left in a buffer too short for prefix and body: the
\* length prefix of a state that is not there
ContractUserdata ==
    {Zeros(cap) : cap \in ContractCapacities}
    \cup {serialize(FinPlanState(TRUE, <<After(Signature(FromKey), Payment(1, ToKey))>>),
                    Zeros(serialized_size(FinPlanState(TRUE,
                        <<After(Signature(FromKey), Payment(1, ToKey))>>)) + 2)).buf}

\* the keys of a transaction (keys[0] signs, keys[1] is the contract account,
\* keys[2] the destination): the regular order of the tests, the same without
\* a destination, the destination signing with the source as destination,
\* and the contract account as the source
TxKeys ==
    { <<FromKey, ContractKey, ToKey>>,
      <<FromKey, ContractKey>>,
      <<ToKey, ContractKey, FromKey>>,
      <<ContractKey, FromKey, ToKey>> }

\* the plans sent with a negative or zero amount: a trivial one and a
\* conditional one
EdgePlans ==
    { Pay(Payment(1, ToKey)),
      After(Signature(FromKey), Payment(1, ToKey)) }

Instructions ==
    {NewContract(t, plan) : t \in 1..MaxTokens, plan \in FinPlans}
    \cup {NewContract(t, plan) : t \in (-1)..0, plan \in EdgePlans}
    \cup {ApplyTimestamp(d) : d \in 0..1}
    \cup {ApplySignature, NewVote, InvalidUserdata}

\* no call yet
NoResult == [kind |-> "None", key |-> <<>>]
NoReplay == [result |-> NoResult, tokens |-> <<>>]
NoCall == [tx |-> Transaction(<<>>, NewVote), pre |-> <<>>,
           result |-> NoResult, replay_of |-> NoReplay]

\* the states handed to serialize
SerStates ==
    {DefaultState, FinPlanState(TRUE, <<>>)}
    \cup {FinPlanState(TRUE, <<plan>>) : plan \in FinPlans}

\* buffer lengths around the two thresholds L and 8 + L of every state
SerBufferLens ==
    {0, 5, MaxUserdata}
    \cup UNION {{serialized_size(st) - 1, serialized_size(st),
                 serialized_size(st) + 7, serialized_size(st) + 8} : st \in SerStates}

(***************************************************************************)
(* Variables.                                                              *)
(***************************************************************************)
VARIABLES
    \* --- find_leader_rotation_index run on its own ---
    fl_pc,            \* "idle" | "loop" | "done"
    fl_interval,      \* leader_rotation_interval
    fl_height,        \* entry_height
    fl_len,           \* new_entries_length
    fl_leader,        \* the schedule answered by cluster state
    fl_i,             \* the loop index i
    fl_flag,          \* is_leader_rotation
    \* --- the writer thread and its channels ---
    pc,               \* position of the writer thread
    leader_rotation_interval,
    leader,           \* the (fixed) schedule of cluster state
    start_height,     \* the entry_height WriteStage::new was given
    entry_height,
    entry_receiver,   \* batches buffered in the entry channel
    sender_alive,     \* the upstream Sender has not been dropped
    next_id,          \* number of entries the upstream has produced
    sent_batches,     \* number of batches the upstream has sent
    received_entries,
    ventries,
    num_new_entries,
    votes_inserted,   \* entries whose votes insert_votes was given
    rotation_signalled, \* find_leader_rotation_index has returned the flag
    scheduled_leader, \* the lookup of the leader check (lines 196-200): the
                      \* height asked for and the answer, or NoLookup
    blockthread_lock, \* the writer's hold on the cluster-state lock:
                      \* "none" | "read" | "write"
    ledger,           \* entries appended by the ledger writer, with heights
    entry_receiver_forward, \* batches sent on the forward channel
    forward_alive,    \* the forward Receiver has not been dropped
    write_errors,     \* number of ledger writes that have failed
    last_err,         \* the error the writer's last step ended with, or "none"
    ret,              \* return value of the writer thread
    \* --- serialize / deserialize run on their own ---
    ser_pc,           \* "idle" | "start" | "serialized" | "deserialized"
    ser_buf,          \* the buffer (outx_creatort / input)
    ser_before,       \* the buffer as it was before the last serialize
    ser_state,        \* the state handed to the last serialize
    ser_result,       \* what the last serialize returned
    de_result,        \* what the last deserialize returned
    balance,          \* the last get_balance call on an account holding the
                      \* buffer: the account's tokens and the value returned
    ser_calls,        \* number of serialize calls so far
    \* --- the contract engine ---
    fce_pc,           \* "idle" | "run" | "aborted" (a call panicked)
    world,            \* the accounts, by key
    last,             \* the last process_transaction call: its transaction,
                      \* the account vector before it, its result, and (when
                      \* it repeats the transaction of the call before) the
                      \* result of that call and the tokens it started from
    tx_count,         \* number of process_transaction calls so far
    all_succeeded,    \* every process_transaction call so far returned Ok
    \* --- recv_mmsg on one socket ---
    dbr_pc,           \* "idle" | "ready" (no call running) | "loop"
    target_os,        \* "linux" | "other": which recv_mmsg was compiled
    traffic,          \* the datagrams the network delivers, in order
    socket,           \* datagrams queued on the socket, oldest first
    nonblocking,      \* the socket's mode
    dbr_sent,         \* number of datagrams that have arrived so far
    packets,          \* the caller's slice: data, meta.size, meta.addr
    dbr_i,            \* i of the running call
    dbr_call,         \* the running (or last) call: the queue, the slice and
                      \* the mode as they were when it began, the datagrams it took
                      \* from the socket, the datagrams that arrived during
                      \* it, the operations that failed in it, its result
    delivered,        \* the datagrams in slots below k of the Ok(k) calls
    dbr_calls,        \* number of recv_mmsg calls so far
    dbr_faults        \* number of socket operations that have failed

fl_vars == <<fl_pc, fl_interval, fl_height, fl_len, fl_leader, fl_i, fl_flag>>

ws_vars == <<pc, leader_rotation_interval, leader, start_height, entry_height,
             entry_receiver, sender_alive, next_id, sent_batches,
             received_entries, ventries, num_new_entries, votes_inserted,
             rotation_signalled, scheduled_leader, blockthread_lock,
             ledger, entry_receiver_forward, forward_alive,
             write_errors, last_err, ret>>

ser_vars == <<ser_pc, ser_buf, ser_before, ser_state, ser_result, de_result,
              balance, ser_calls>>

fce_vars == <<fce_pc, world, last, tx_count, all_succeeded>>

dbr_vars == <<dbr_pc, target_os, traffic, socket, nonblocking, dbr_sent,
              packets, dbr_i, dbr_call, delivered, dbr_calls, dbr_faults>>

vars == <<fl_vars, ws_vars, ser_vars, fce_vars, dbr_vars>>

(***************************************************************************)
(* Idle values: a subsystem that a specification does not run.             *)
(***************************************************************************)
FlIdle ==
    /\ fl_pc = "idle"
    /\ fl_interval = 1
    /\ fl_height = 0
    /\ fl_len = 0
    /\ fl_leader = <<>>
    /\ fl_i = 0
    /\ fl_flag = FALSE

\* the leader check has not looked up a leader
NoLookup == [height |-> -1, id |-> "none"]

WsIdle ==
    /\ pc = "idle"
    /\ leader_rotation_interval = 1
    /\ leader = <<>>
    /\ start_height = 0
    /\ entry_height = 0
    /\ entry_receiver = <<>>
    /\ sender_alive = TRUE
    /\ next_id = 0
    /\ sent_batches = 0
    /\ received_entries = <<>>
    /\ ventries = <<>>
    /\ num_new_entries = 0
    /\ votes_inserted = {}
    /\ rotation_signalled = FALSE
    /\ scheduled_leader = NoLookup
    /\ blockthread_lock = "none"
    /\ ledger = <<>>
    /\ entry_receiver_forward = <<>>
    /\ forward_alive = TRUE
    /\ write_errors = 0
    /\ last_err = "none"
    /\ ret = "none"

SerIdle ==
    /\ ser_pc = "idle"
    /\ ser_buf = <<>>
    /\ ser_before = <<>>
    /\ ser_state = DefaultState
    /\ ser_result = Ok
    /\ de_result = DecFail
    /\ balance = <<>>
    /\ ser_calls = 0

FceIdle ==
    /\ fce_pc = "idle"
    /\ world = <<>>
    /\ last = NoCall
    /\ tx_count = 0
    /\ all_succeeded = TRUE

\* no recv_mmsg call has been made
NoDbrCall ==
    [q0 |-> <<>>, before |-> <<>>, mode |-> FALSE, taken |-> <<>>,
     arrivals |-> 0, failed |-> {}, result |-> "none", k |-> 0]

DbrIdle ==
    /\ dbr_pc = "idle"
    /\ target_os = "other"
    /\ traffic = <<>>
    /\ socket = <<>>
    /\ nonblocking = FALSE
    /\ dbr_sent = 0
    /\ packets = <<>>
    /\ dbr_i = 0
    /\ dbr_call = NoDbrCall
    /\ delivered = <<>>
    /\ dbr_calls = 0
    /\ dbr_faults = 0

(***************************************************************************)
(* Specification SpecFLRI: find_leader_rotation_index on arbitrary inputs, *)
(* one loop iteration per step.                                            *)
(***************************************************************************)
FlInit ==
    /\ fl_pc = "loop"
    /\ fl_interval \in 1..MaxInterval
    /\ fl_height \in 0..MaxStart
    /\ fl_len \in 0..MaxBatch
    /\ fl_leader \in Schedules(fl_interval)
    /\ fl_i = 0
    /\ fl_flag = FALSE

\* one pass through the loop body (lines 46-70)
FlIterate ==
    /\ fl_pc = "loop"
    /\ IF is_leader_rotation_at(fl_leader, fl_interval, fl_height, fl_i)
       THEN /\ fl_flag' = TRUE
            /\ fl_pc' = "done"
            /\ fl_i' = fl_i
       ELSE IF fl_i = fl_len
            THEN /\ fl_pc' = "done"
                 /\ UNCHANGED <<fl_i, fl_flag>>
            ELSE /\ fl_i' = advance_index(fl_interval, fl_height, fl_len, fl_i)
                 /\ UNCHANGED <<fl_pc, fl_flag>>
    /\ UNCHANGED <<fl_interval, fl_height, fl_len, fl_leader>>
    /\ UNCHANGED <<ws_vars, ser_vars, fce_vars, dbr_vars>>

InitFLRI == FlInit /\ WsIdle /\ SerIdle /\ FceIdle /\ DbrIdle
NextFLRI == FlIterate
SpecFLRI == InitFLRI /\ [][NextFLRI]_vars

\* C1: when find_leader_rotation_index returns the prefix length k (fl_i) and
\* the flag, (1) every rotation boundary b in [h, h+k) is led by this node, and
\* (2) either k = N, or h+k is a boundary led by somebody else and the flag is
\* set.
C1_TruncationContract ==
    fl_pc = "done" =>
        /\ \A b \in fl_height..(fl_height + fl_i - 1) :
               b % fl_interval = 0 => get_scheduled_leader(fl_leader, b) = "me"
        /\ \/ fl_i = fl_len
           \/ /\ (fl_height + fl_i) % fl_interval = 0
              /\ get_scheduled_leader(fl_leader, fl_height + fl_i) # "me"
              /\ fl_flag

\* height b is a rotation boundary whose scheduled leader is not this node
FlForeignBoundary(b) ==
    /\ b % fl_interval = 0
    /\ get_scheduled_leader(fl_leader, b) # "me"

\* C13: the flag is set exactly when the height h+k just after the returned
\* prefix is a boundary led by somebody else.  Hence: a batch that reaches
\* such a boundary exactly (all earlier boundaries led by this node) comes
\* back whole with the flag set; a batch whose boundaries, h+N included, are
\* all led by this node comes back whole with the flag clear; and when h is
\* itself such a boundary nothing comes back and the flag is set.
C13_RotationFlag ==
    fl_pc = "done" =>
        /\ fl_flag <=> FlForeignBoundary(fl_height + fl_i)
        /\ (/\ FlForeignBoundary(fl_height + fl_len)
            /\ \A b \in fl_height..(fl_height + fl_len - 1) : ~FlForeignBoundary(b))
           => (fl_i = fl_len /\ fl_flag)
        /\ (\A b \in fl_height..(fl_height + fl_len) : ~FlForeignBoundary(b))
           => (fl_i = fl_len /\ ~fl_flag)
        /\ FlForeignBoundary(fl_height) => (fl_i = 0 /\ fl_flag)

\* a batch longer than an epoch that exactly reaches a boundary without a
\* scheduled leader and comes back whole with the flag set
C13_Witness ==
    /\ fl_pc = "done"
    /\ fl_len > fl_interval
    /\ fl_i = fl_len
    /\ fl_flag
    /\ get_scheduled_leader(fl_leader, fl_height + fl_len) = "none"

\* the function runs to its end: the thread that called it keeps executing
\* the loop body (lines 46-70)
SpecFLRILive == SpecFLRI /\ WF_vars(FlIterate)

\* C34: find_leader_rotation_index terminates; every pass of the loop that
\* does not leave it makes i strictly larger; and i never exceeds the length
\* of the batch, so that truncate(i) (line 72) returns a prefix of the batch.
C34_Termination ==
    /\ <>(fl_pc = "done")
    /\ [][(fl_pc = "loop" /\ fl_pc' = "loop") => fl_i' > fl_i]_vars
    /\ [](fl_i \in 0..fl_len)

\* a batch of two epochs or more that starts off a boundary and comes back
\* whole, after several passes of the loop
C34_Witness ==
    /\ fl_pc = "done"
    /\ fl_height % fl_interval # 0
    /\ fl_len >= 2 * fl_interval
    /\ fl_i = fl_len
    /\ ~fl_flag

(***************************************************************************)
(* Specification SpecWS: the writer thread of WriteStage::new              *)
(* (write_stage.rs:182-246) with write_and_send_entries (78-161), an       *)
(* upstream that sends batches and may drop its Sender, and a downstream   *)
(* that may drop the forward Receiver.                                     *)
(***************************************************************************)
WsInit ==
    /\ pc = "check"
    /\ leader_rotation_interval \in 1..MaxInterval
    /\ leader \in Schedules(leader_rotation_interval)
    /\ start_height \in 0..MaxStart
    /\ entry_height = start_height
    /\ entry_receiver = <<>>
    /\ sender_alive = TRUE
    /\ next_id = 0
    /\ sent_batches = 0
    /\ received_entries = <<>>
    /\ ventries = <<>>
    /\ num_new_entries = 0
    /\ votes_inserted = {}
    /\ rotation_signalled = FALSE
    /\ scheduled_leader = NoLookup
    /\ blockthread_lock = "none"
    /\ ledger = <<>>
    /\ entry_receiver_forward = <<>>
    /\ forward_alive = TRUE
    /\ write_errors = 0
    /\ last_err = "none"
    /\ ret = "none"

ws_config == <<leader_rotation_interval, leader, start_height>>

\* the upstream's counters
ws_upstream == <<next_id, sent_batches>>

\* the locals of write_and_send_entries
ws_locals == <<received_entries, ventries, num_new_entries>>

\* the match of lines 219-223 taking every receive error for a disconnect
any_recv_error_disconnects(e) ==
    IF e \in {"Disconnected", "Timeout"} THEN "ChannelDisconnected" ELSE "none"

\* write_stage.rs:211-232: what the loop does with the result of
\* write_and_send_entries ("none" is Ok): only Disconnected ends the thread
handle_result(e) ==
    IF e = "Disconnected" THEN "ChannelDisconnected" ELSE "none"

\* write_and_send_entries returns e: its locals are gone, and the loop
\* either returns from the thread or goes on to the leader vote
ReturnToLoop(e) ==
    /\ last_err' = e
    /\ ret' = handle_result(e)
    /\ pc' = IF handle_result(e) = "none" THEN "vote" ELSE "done"
    /\ received_entries' = <<>>
    /\ ventries' = <<>>
    /\ num_new_entries' = 0

\* the upstream sends one batch of n fresh entries (entries are numbered in
\* the order they are produced)
UpstreamSend ==
    /\ pc # "idle"
    /\ sender_alive
    /\ sent_batches < MaxBatches
    /\ \E n \in 0..Min(MaxBatch, MaxSent - next_id) :
          /\ entry_receiver' = Append(entry_receiver, [j \in 1..n |-> next_id + j])
          /\ next_id' = next_id + n
          /\ sent_batches' = sent_batches + 1
    /\ UNCHANGED <<pc, ws_config, ws_locals, entry_height, sender_alive, ledger,
                   entry_receiver_forward, forward_alive, write_errors, last_err, ret>>
    /\ UNCHANGED <<votes_inserted, rotation_signalled, scheduled_leader,
                   blockthread_lock>>
    /\ UNCHANGED <<fl_vars, ser_vars, fce_vars, dbr_vars>>

\* the upstream drops its Sender
UpstreamDrop ==
    /\ pc # "idle"
    /\ sender_alive
    /\ sender_alive' = FALSE
    /\ UNCHANGED <<pc, ws_config, ws_locals, entry_height, entry_receiver,
                   ws_upstream, ledger, entry_receiver_forward, forward_alive,
                   write_errors, last_err, ret>>
    /\ UNCHANGED <<votes_inserted, rotation_signalled, scheduled_leader,
                   blockthread_lock>>
    /\ UNCHANGED <<fl_vars, ser_vars, fce_vars, dbr_vars>>

\* the downstream drops the Receiver of the forward channel
DownstreamDrop ==
    /\ pc # "idle"
    /\ forward_alive
    /\ forward_alive' = FALSE
    /\ UNCHANGED <<pc, ws_config, ws_locals, entry_height, entry_receiver,
                   sender_alive, ws_upstream, ledger, entry_receiver_forward,
                   write_errors, last_err, ret>>
    /\ UNCHANGED <<votes_inserted, rotation_signalled, scheduled_leader,
                   blockthread_lock>>
    /\ UNCHANGED <<fl_vars, ser_vars, fce_vars, dbr_vars>>

\* a leader check at every height
at_any_height(height, interval) == TRUE

\* write_stage.rs:196: entry_height % leader_rotation_interval == 0
at_rotation_boundary(height, interval) == height % interval = 0

\* a guard of the cluster-state lock that is kept beyond its scope
keep(guard) == guard

\* write_stage.rs:200: drop(rblockthread); likewise the end of the block of
\* the guard in find_leader_rotation_index (48-55) and the end of the
\* statement of the temporary write guard (128)
drop(guard) == "none"

\* write_stage.rs:196-209: the leader check at the top of the writer loop.
\* The read guard taken for the lookup is dropped before the match.
LeaderCheck ==
    /\ pc = "check"
    /\ IF at_rotation_boundary(entry_height, leader_rotation_interval)
       THEN /\ scheduled_leader' =
                  [height |-> entry_height,
                   id |-> get_scheduled_leader(leader, entry_height)]
            /\ blockthread_lock' = drop("read")
       ELSE /\ scheduled_leader' = NoLookup
            /\ UNCHANGED blockthread_lock
    /\ IF scheduled_leader' \notin {NoLookup, [height |-> entry_height, id |-> "me"]}
       THEN /\ ret' = "LeaderRotation"
            /\ pc' = "done"
       ELSE /\ pc' = "recv"
            /\ UNCHANGED ret
    /\ last_err' = "none"
    /\ UNCHANGED <<ws_config, ws_locals, entry_height, entry_receiver,
                   sender_alive, ws_upstream, ledger, entry_receiver_forward,
                   forward_alive, write_errors>>
    /\ UNCHANGED <<votes_inserted, rotation_signalled>>
    /\ UNCHANGED <<fl_vars, ser_vars, fce_vars, dbr_vars>>

\* write_stage.rs:86-90 and 219-223: recv_timeout on the entry channel.  A
\* buffered batch is delivered even after the Sender was dropped; an empty
\* channel gives Disconnected when the Sender was dropped (the thread returns
\* ChannelDisconnected) and Timeout otherwise (the loop goes on to the vote).
RecvTimeout ==
    /\ pc = "recv"
    /\ IF entry_receiver # <<>>
       THEN /\ received_entries' = Head(entry_receiver)
            /\ entry_receiver' = Tail(entry_receiver)
            /\ ventries' = <<>>
            /\ num_new_entries' = 0
            /\ pc' = "find"
            /\ UNCHANGED <<last_err, ret>>
       ELSE /\ ReturnToLoop(IF sender_alive THEN "Timeout" ELSE "Disconnected")
            /\ UNCHANGED entry_receiver
    /\ UNCHANGED <<ws_config, entry_height, sender_alive, ws_upstream, ledger,
                   entry_receiver_forward, forward_alive, write_errors>>
    /\ scheduled_leader' = NoLookup
    /\ UNCHANGED <<votes_inserted, rotation_signalled, blockthread_lock>>
    /\ UNCHANGED <<fl_vars, ser_vars, fce_vars, dbr_vars>>

\* write_stage.rs:92-106: truncate the received batch at the rotation boundary
\* and accumulate it
FindRotation ==
    /\ pc = "find"
    /\ LET r == find_leader_rotation_index(leader, leader_rotation_interval,
                                           entry_height + num_new_entries,
                                           received_entries)
       IN  /\ num_new_entries' = num_new_entries + Len(r.new_entries)
           /\ ventries' = Append(ventries, r.new_entries)
           /\ pc' = IF r.is_leader_rotation THEN "write" ELSE "try_recv"
           /\ rotation_signalled' = (rotation_signalled \/ r.is_leader_rotation)
    /\ received_entries' = <<>>
    /\ UNCHANGED <<ws_config, entry_height, entry_receiver, sender_alive,
                   ws_upstream, ledger, entry_receiver_forward, forward_alive,
                   write_errors, last_err, ret>>
    /\ blockthread_lock' = drop("read")
    /\ UNCHANGED <<votes_inserted, scheduled_leader>>
    /\ UNCHANGED <<fl_vars, ser_vars, fce_vars, dbr_vars>>

\* write_stage.rs:108-112: try_recv; Empty and Disconnected both end the drain
TryRecv ==
    /\ pc = "try_recv"
    /\ IF entry_receiver # <<>>
       THEN /\ received_entries' = Head(entry_receiver)
            /\ entry_receiver' = Tail(entry_receiver)
            /\ pc' = "find"
       ELSE /\ pc' = "write"
            /\ UNCHANGED <<received_entries, entry_receiver>>
    /\ UNCHANGED <<ws_config, entry_height, sender_alive, ws_upstream, ventries,
                   num_new_entries, ledger, entry_receiver_forward,
                   forward_alive, write_errors, last_err, ret>>
    /\ UNCHANGED <<votes_inserted, rotation_signalled, scheduled_leader,
                   blockthread_lock>>
    /\ UNCHANGED <<fl_vars, ser_vars, fce_vars, dbr_vars>>

\* a ledger writer that appends a batch back to front
LedgerEntriesReversed(entries, height) ==
    [j \in 1..Len(entries) |->
        [id |-> entries[Len(entries) + 1 - j], height |-> height + j - 1]]

\* the ledger records each appended entry with the height the writer gave it
LedgerEntries(entries, height) ==
    [j \in 1..Len(entries) |-> [id |-> entries[j], height |-> height + j - 1]]

\* entry_height counted per batch instead of per entry
advance_per_batch(height, entries) == height + 1

\* write_stage.rs:133: *entry_height += entries.len()
advance_entry_height(height, entries) == height + Len(entries)

\* LedgerWriter::write_entries succeeds or fails (at most MaxWriteErrors
\* failures are explored)
WriteOutcomes == IF write_errors < MaxWriteErrors THEN BOOLEAN ELSE {TRUE}

\* a writer that skips the vote insertion
insert_no_votes(inserted, entries) == inserted

\* write_stage.rs:127-128: entries.votes() handed to insert_votes; the votes
\* of a batch are identified by the entries that carry them
insert_votes(inserted, entries) ==
    inserted \cup {entries[j] : j \in 1..Len(entries)}

\* write_stage.rs:122-129: the head of one pass of the loop over ventries:
\* the loop ends (and write_and_send_entries returns Ok) when no batch is
\* left; otherwise the votes of the next batch are inserted into cluster
\* state
InsertVotes ==
    /\ pc = "write"
    /\ IF ventries = <<>>
       THEN /\ ReturnToLoop("none")
            /\ UNCHANGED <<votes_inserted, blockthread_lock>>
       ELSE /\ votes_inserted' = insert_votes(votes_inserted, Head(ventries))
            /\ blockthread_lock' = drop("write")
            /\ pc' = "ledger"
            /\ UNCHANGED <<received_entries, ventries, num_new_entries,
                           last_err, ret>>
    /\ UNCHANGED <<ws_config, entry_height, entry_receiver, sender_alive,
                   ws_upstream, ledger, entry_receiver_forward, forward_alive,
                   write_errors>>
    /\ UNCHANGED <<rotation_signalled, scheduled_leader>>
    /\ UNCHANGED <<fl_vars, ser_vars, fce_vars, dbr_vars>>

\* write_stage.rs:131-149: the rest of the pass.  The ledger write either
\* appends the batch or fails; a failed write or a failed send returns from
\* write_and_send_entries with the error (224-231), dropping the batches not
\* yet written.
WriteEntries ==
    /\ pc = "ledger"
    /\ LET entries == Head(ventries) IN
       \E write_ok \in WriteOutcomes :
          IF ~write_ok
          THEN /\ ReturnToLoop("Io")
               /\ write_errors' = write_errors + 1
               /\ UNCHANGED <<ledger, entry_height, entry_receiver_forward>>
          ELSE /\ ledger' = ledger \o LedgerEntries(entries, entry_height)
               /\ entry_height' = advance_entry_height(entry_height, entries)
               /\ UNCHANGED write_errors
               /\ IF entries = <<>> \/ forward_alive
                  THEN /\ entry_receiver_forward' =
                             IF entries = <<>> THEN entry_receiver_forward
                             ELSE Append(entry_receiver_forward, entries)
                       /\ ventries' = Tail(ventries)
                       /\ pc' = "write"
                       /\ UNCHANGED <<received_entries, num_new_entries,
                                      last_err, ret>>
                  ELSE /\ ReturnToLoop("Send")
                       /\ UNCHANGED entry_receiver_forward
    /\ UNCHANGED <<ws_config, entry_receiver, sender_alive, ws_upstream,
                   forward_alive, votes_inserted, rotation_signalled,
                   scheduled_leader, blockthread_lock>>
    /\ UNCHANGED <<fl_vars, ser_vars, fce_vars, dbr_vars>>

\* write_stage.rs:233-244: send_leader_vote; its error is logged and the loop
\* starts its next iteration
SendLeaderVote ==
    /\ pc = "vote"
    /\ pc' = "check"
    /\ \E vote_ok \in BOOLEAN : last_err' = IF vote_ok THEN "none" ELSE "Vote"
    /\ UNCHANGED <<ws_config, ws_locals, entry_height, entry_receiver,
                   sender_alive, ws_upstream, ledger, entry_receiver_forward,
                   forward_alive, write_errors, ret>>
    /\ UNCHANGED <<votes_inserted, rotation_signalled, scheduled_leader,
                   blockthread_lock>>
    /\ UNCHANGED <<fl_vars, ser_vars, fce_vars, dbr_vars>>

InitWS == WsInit /\ FlIdle /\ SerIdle /\ FceIdle /\ DbrIdle
NextWS ==
    \/ UpstreamSend
    \/ UpstreamDrop
    \/ DownstreamDrop
    \/ LeaderCheck
    \/ RecvTimeout
    \/ FindRotation
    \/ TryRecv
    \/ InsertVotes
    \/ WriteEntries
    \/ SendLeaderVote
SpecWS == InitWS /\ [][NextWS]_vars

\* the rotation boundaries at or above the starting height that are scheduled
\* for another node (or for nobody)
ForeignBoundaries ==
    {b \in start_height..(MaxStart + MaxSent + MaxInterval) :
        /\ b % leader_rotation_interval = 0
        /\ get_scheduled_leader(leader, b) # "me"}

\* C2: the writer never appends an entry at a height at or above a rotation
\* boundary (>= its starting height) whose scheduled leader is not this node.
C2_StopsWritingAtRotation ==
    \A j \in 1..Len(ledger) : \A b \in ForeignBoundaries : ledger[j].height < b

\* C11: entry_height never decreases, it is always the starting height plus
\* the number of entries appended to the ledger, and a receive timeout or a
\* failed ledger write leaves it unchanged.
C11_HeightAccounting ==
    [][/\ entry_height = start_height + Len(ledger)
       /\ entry_height' = start_height' + Len(ledger')
       /\ entry_height' >= entry_height
       /\ (pc = "recv" /\ pc' = "vote") => entry_height' = entry_height
       /\ write_errors' # write_errors => entry_height' = entry_height]_vars

\* the writer has appended entries, has had a ledger write fail, and has
\* just seen a receive timeout
C11_Witness ==
    /\ pc = "vote"
    /\ received_entries = <<>>
    /\ ventries = <<>>
    /\ entry_receiver = <<>>
    /\ write_errors > 0
    /\ Len(ledger) > 1
    /\ entry_height = start_height + Len(ledger)

\* the first rotation boundary at or above the starting height that is not
\* scheduled for this node: this node leads every boundary below it
FirstForeignBoundary ==
    CHOOSE b \in ForeignBoundaries : \A c \in ForeignBoundaries : b <= c

\* C12 (its safety half): with this node leading every boundary below b and
\* another leader at b, the ledger never grows beyond height b, and when the
\* writer has terminated with LeaderRotation the ledger stands at exactly b.
C12_LeaderExit ==
    /\ entry_height <= FirstForeignBoundary
    /\ ret = "LeaderRotation" => entry_height = FirstForeignBoundary

LedgerIds == [j \in 1..Len(ledger) |-> ledger[j].id]

\* the concatenation of a sequence of batches
RECURSIVE Concat(_)
Concat(batches) ==
    IF batches = <<>> THEN <<>> ELSE Head(batches) \o Concat(Tail(batches))

\* the entries the writer has taken from the entry channel: the upstream
\* numbers its entries 1, 2, ... in the order it sends them, so these are the
\* entries produced that are no longer buffered in the channel
ReceivedIds ==
    {e \in 1..next_id :
        \A b \in 1..Len(entry_receiver) :
            \A j \in 1..Len(entry_receiver[b]) : entry_receiver[b][j] # e}

\* C15: the entries appended to the ledger are, in the order of their
\* reception, entries taken from the entry channel (none twice); the batches
\* sent on the forward channel, concatenated, are a prefix of what the ledger
\* holds; and no forwarded batch is empty.
C15_Ordering ==
    /\ \A j \in 1..Len(ledger) : ledger[j].id \in ReceivedIds
    /\ \A j \in 1..Len(ledger) : \A k \in 1..Len(ledger) :
          j < k => ledger[j].id < ledger[k].id
    /\ Len(Concat(entry_receiver_forward)) <= Len(ledger)
    /\ Concat(entry_receiver_forward) =
          SubSeq(LedgerIds, 1, Len(Concat(entry_receiver_forward)))
    /\ \A b \in 1..Len(entry_receiver_forward) : entry_receiver_forward[b] # <<>>

\* a batch was written and forwarded, a received entry was then dropped, and
\* a later batch of two or more entries was written but not forwarded
C15_Witness ==
    /\ Len(entry_receiver_forward) >= 1
    /\ Len(Concat(entry_receiver_forward)) + 2 <= Len(ledger)
    /\ \E e \in ReceivedIds :
          /\ e < ledger[Len(ledger)].id
          /\ \A j \in 1..Len(ledger) : ledger[j].id # e

\* C16: whenever the writer stands before the ledger write of a batch, the
\* votes of every entry of that batch have been inserted; every entry in the
\* ledger had its votes inserted; and inserted votes stay inserted, also when
\* the ledger write fails.
C16_VotesBeforeEntries ==
    [][/\ pc = "ledger" =>
             /\ ventries # <<>>
             /\ \A j \in 1..Len(Head(ventries)) :
                   Head(ventries)[j] \in votes_inserted
       /\ \A j \in 1..Len(ledger') : ledger'[j].id \in votes_inserted'
       /\ votes_inserted \subseteq votes_inserted'
       /\ write_errors' # write_errors =>
             /\ pc = "ledger"
             /\ votes_inserted' = votes_inserted
             /\ ledger' = ledger]_vars

\* a ledger write has just failed for a batch whose votes are inserted
C16_Witness ==
    /\ pc = "vote"
    /\ last_err = "Io"
    /\ write_errors > 0
    /\ \E e \in votes_inserted : \A j \in 1..Len(ledger) : ledger[j].id # e

\* C27: once find_leader_rotation_index has returned the rotation flag, the
\* writer takes no batch from the entry channel any more, and the next
\* leader check ends the thread with LeaderRotation.
C27_RotationLeadsToExit ==
    [][rotation_signalled =>
          /\ Len(entry_receiver') >= Len(entry_receiver)
          /\ (pc = "check" /\ pc' # "check") => ret' = "LeaderRotation"]_vars

\* C28: when the writer has returned LeaderRotation, entry_height is a
\* multiple of the rotation interval and the leader scheduled at
\* entry_height, which the leader check has just looked up, is not this
\* node; and the leader check looks up a leader only for an entry_height
\* that is such a multiple.
C28_LeaderRotationPostcondition ==
    /\ ret = "LeaderRotation" =>
          /\ entry_height % leader_rotation_interval = 0
          /\ get_scheduled_leader(leader, entry_height) # "me"
          /\ scheduled_leader =
                [height |-> entry_height,
                 id |-> get_scheduled_leader(leader, entry_height)]
    /\ scheduled_leader # NoLookup =>
          /\ scheduled_leader.height = entry_height
          /\ scheduled_leader.height % leader_rotation_interval = 0
          /\ pc \in {"recv", "done"}

\* the writer wrote entries up to a boundary for which no leader is set and
\* returned LeaderRotation there
C28_Witness ==
    /\ ret = "LeaderRotation"
    /\ Len(ledger) > 0
    /\ entry_height > start_height
    /\ scheduled_leader = [height |-> entry_height, id |-> "none"]

\* C29: the writer holds no guard of the cluster-state lock when it is about
\* to receive from the entry channel (recv_timeout, try_recv) or to write
\* and forward a batch, nor when it is about to take the write lock for the
\* vote insertion.
C29_LockDiscipline ==
    /\ pc \in {"recv", "try_recv", "ledger"} => blockthread_lock = "none"
    /\ pc = "write" => blockthread_lock = "none"
    /\ blockthread_lock \in {"none", "read", "write"}

\* the writer, having looked up leaders and inserted the votes of a batch,
\* is about to write it and send it on the live forward channel
C29_Witness ==
    /\ pc = "ledger"
    /\ rotation_signalled
    /\ Head(ventries) # <<>>
    /\ \A j \in 1..Len(Head(ventries)) : Head(ventries)[j] \in votes_inserted
    /\ forward_alive
    /\ blockthread_lock = "none"

\* C33: when write_and_send_entries returns, every entry it accumulated in
\* ventries (taken from the entry channel and kept by the truncation) is in
\* the ledger, also when the ledger write or the downstream send of an
\* earlier batch failed; the batch whose own write failed is not counted.
C33_NoSilentEntryLoss ==
    [][(pc \in {"write", "ledger"} /\ pc' \notin {"write", "ledger"})
       => /\ \A b \in 2..Len(ventries) : \A j \in 1..Len(ventries[b]) :
                \E l \in 1..Len(ledger') : ledger'[l].id = ventries[b][j]
          /\ (ventries # <<>> /\ write_errors' = write_errors)
                => \A j \in 1..Len(ventries[1]) :
                      \E l \in 1..Len(ledger') : ledger'[l].id = ventries[1][j]]_vars

(***************************************************************************)
(* Specification SpecSer: FinPlanState::serialize, ::deserialize and       *)
(* ::get_balance on the userdata of one account: buffers of every length   *)
(* around the thresholds, zero-filled as Account::new leaves them or       *)
(* filled with 255, and then holding whatever the earlier calls wrote.     *)
(***************************************************************************)
SerInit ==
    /\ ser_pc = "start"
    /\ \E n \in SerBufferLens : \E fill \in {0, 255} :
          ser_buf = [i \in 1..n |-> fill]
    /\ ser_before = <<>>
    /\ ser_state = DefaultState
    /\ ser_result = Ok
    /\ de_result = DecFail
    /\ balance = <<>>
    /\ ser_calls = 0

SerSerialize ==
    /\ ser_pc \in {"start", "serialized", "deserialized"}
    /\ ser_calls < MaxSerCalls
    /\ \E st \in SerStates :
          LET r == serialize(st, ser_buf) IN
          /\ ser_state' = st
          /\ ser_before' = ser_buf
          /\ ser_buf' = r.buf
          /\ ser_result' = r.result
    /\ ser_pc' = "serialized"
    /\ de_result' = DecFail
    /\ balance' = <<>>
    /\ ser_calls' = ser_calls + 1
    /\ UNCHANGED <<fl_vars, ws_vars, fce_vars, dbr_vars>>

SerDeserialize ==
    /\ ser_pc = "serialized"
    /\ de_result' = deserialize(ser_buf)
    /\ ser_pc' = "deserialized"
    /\ UNCHANGED <<ser_buf, ser_before, ser_state, ser_result, balance,
                   ser_calls>>
    /\ UNCHANGED <<fl_vars, ws_vars, fce_vars, dbr_vars>>

\* get_balance on an account that holds the buffer as its userdata
SerGetBalance ==
    /\ ser_pc \in {"start", "serialized", "deserialized"}
    /\ \E tokens \in 1..MaxTokens :
          balance' = <<[tokens |-> tokens,
                        value |-> get_balance(Account(tokens, ser_buf))]>>
    /\ UNCHANGED <<ser_pc, ser_buf, ser_before, ser_state, ser_result,
                   de_result, ser_calls>>
    /\ UNCHANGED <<fl_vars, ws_vars, fce_vars, dbr_vars>>

InitSer == SerInit /\ FlIdle /\ WsIdle /\ FceIdle /\ DbrIdle
NextSer == SerSerialize \/ SerDeserialize \/ SerGetBalance
SpecSer == InitSer /\ [][NextSer]_vars

\* C9: serialize into a buffer shorter than 8 + L bytes returns
\* UserdataTooSmall (it does not abort) and leaves the buffer as it was.
C9_SerializeSizeCheck ==
    (ser_pc \in {"serialized", "deserialized"}
        /\ Len(ser_before) < 8 + serialized_size(ser_state))
    => /\ ser_result = Err("UserdataTooSmall", <<>>)
       /\ ser_buf = ser_before

\* C10: serialize(s) into a buffer of at least 8 + serialized_size(s) bytes,
\* whatever it held before, succeeds, and deserialize of the buffer then
\* yields s.
C10_FramingRoundTrip ==
    (ser_pc = "deserialized"
        /\ Len(ser_before) >= 8 + serialized_size(ser_state))
    => /\ ser_result = Ok
       /\ de_result.ok
       /\ de_result.val = ser_state

\* the round trip of a state written over a longer earlier state
C10_Witness ==
    /\ ser_pc = "deserialized"
    /\ Len(ser_before) >= 8 + serialized_size(ser_state)
    /\ deserialize(ser_before).ok
    /\ serialized_size(deserialize(ser_before).val) > serialized_size(ser_state)
    /\ is_pending(ser_state)
    /\ de_result.ok

\* what the length-prefixed layout of the buffer holds
SerHeld == deserialize(ser_buf)

\* C3: get_balance of an account returns 0 when its userdata holds, in the
\* length-prefixed layout, a state with a pending plan, and the account's
\* tokens in every other case.
C3_EscrowVisibility ==
    balance # <<>>
    => balance[1].value = IF SerHeld.ok /\ is_pending(SerHeld.val)
                          THEN 0 ELSE balance[1].tokens


(***************************************************************************)
(* Specification SpecFCE: a run of process_transaction and get_balance     *)
(* calls on three accounts: the source (tokens, no userdata), the contract *)
(* account (zero-filled userdata, as Account::new leaves it) and the       *)
(* destination.  The account vector of a call holds the accounts of the    *)
(* transaction's keys, in the order of the keys.                           *)
(***************************************************************************)
FceInit ==
    /\ fce_pc = "run"
    /\ \E t \in 1..MaxTokens : \E c \in 0..1 : \E userdata \in ContractUserdata :
          world = [k \in Pubkeys |->
                      IF k = FromKey THEN Account(t, <<>>)
                      ELSE IF k = ContractKey THEN Account(c, userdata)
                      ELSE Account(0, <<>>)]
    /\ last = NoCall
    /\ tx_count = 0
    /\ all_succeeded = TRUE

\* the account vector of a call: the accounts of the keys
AccountsOf(keys) == [i \in 1..Len(keys) |-> world[keys[i]]]

\* the accounts after a call: those of the keys are replaced
WorldAfter(keys, accounts) ==
    [k \in Pubkeys |->
        IF \E i \in 1..Len(keys) : keys[i] = k
        THEN accounts[CHOOSE i \in 1..Len(keys) : keys[i] = k]
        ELSE world[k]]

\* the tokens of an account vector
TokensOf(accounts) == [i \in 1..Len(accounts) |-> accounts[i].tokens]

\* the call's effect on the variables; a call that repeats the transaction of
\* the call before it keeps that call's result and the tokens it started from
RecordCall(tx, out) ==
    /\ world' = WorldAfter(tx.keys, out.accounts)
    /\ last' = [tx |-> tx, pre |-> AccountsOf(tx.keys), result |-> out.result,
                replay_of |-> IF last.tx = tx
                              THEN [result |-> last.result,
                                    tokens |-> TokensOf(last.pre)]
                              ELSE NoReplay]
    /\ fce_pc' = IF out.result = Panic THEN "aborted" ELSE "run"
    /\ all_succeeded' = (all_succeeded /\ out.result = Ok)

\* process_transaction on the accounts of the keys of tx
ProcessTransaction ==
    /\ fce_pc = "run"
    /\ tx_count < MaxTxs
    /\ \E keys \in TxKeys : \E instruction \in Instructions :
          \E out \in {process_transaction(Transaction(keys, instruction),
                                          AccountsOf(keys))} :
              RecordCall(Transaction(keys, instruction), out)
    /\ tx_count' = tx_count + 1
    /\ UNCHANGED <<fl_vars, ws_vars, ser_vars, dbr_vars>>

\* the account vector after the last call
LastPost == AccountsOf(last.tx.keys)

InitFCE == FceInit /\ FlIdle /\ WsIdle /\ SerIdle /\ DbrIdle
NextFCE == ProcessTransaction
SpecFCE == InitFCE /\ [][NextFCE]_vars

\* the last call, as the claims speak of it
LastKeys == last.tx.keys
LastInstruction == last.tx.instruction
LastIsWitness == LastInstruction.tag \in {"ApplyTimestamp", "ApplySignature"}
LastWitness ==
    IF LastInstruction.tag = "ApplyTimestamp"
    THEN WitnessTimestamp(LastInstruction.dt) ELSE WitnessSignature
\* the contract state the last call found, by FinPlanState::deserialize
LastFound == deserialize(last.pre[2].userdata)
\* the last call is a witness transaction that reached the witness routine on
\* an initialized pending contract
LastWitnessApplied ==
    /\ LastIsWitness
    /\ last.pre[1].userdata = <<>>
    /\ LastFound.ok
    /\ is_pending(LastFound.val)
    /\ LastFound.val.initialized
\* the plan the witness of the last call leaves
LastReduced == apply_witness(LastFound.val.pending_fin_plan[1], LastWitness,
                             LastKeys[1])
LastReducesToPayment ==
    LastWitnessApplied /\ final_payment(LastReduced) # <<>>
LastIsError == last.result \notin {Ok, Panic, NoResult}

C5_FailureAtomicity ==
    LastIsError => LastPost = last.pre

\* C6: a witness transaction that reduces the pending plan to a payment to P
\* while keys[2] is another key returns DestinationMissing(P), changes no
\* account's tokens, and leaves the contract account's userdata decoding to
\* the pending state it held before.
C6_DestinationBind ==
    (LastReducesToPayment /\ Len(LastKeys) >= 3
        /\ LastKeys[3] # LastReduced.payment.to)
    => /\ last.result = Err("DestinationMissing", LastReduced.payment.to)
       /\ TokensOf(LastPost) = TokensOf(last.pre)
       /\ deserialize(LastPost[2].userdata) = LastFound

\* a cancel signed by the source with the other party as keys[2]
C6_Witness ==
    /\ LastReducesToPayment
    /\ Len(LastKeys) >= 3
    /\ LastKeys[3] # LastReduced.payment.to
    /\ last.result = Err("DestinationMissing", LastReduced.payment.to)
    /\ last.pre[2].tokens > 0

\* C7: a witness transaction that reduces the pending plan to a payment and
\* carries no keys[2] returns DestinationMissing(payment.to) as an error
\* value and changes no account.
C7_AbsentDestination ==
    (LastReducesToPayment /\ Len(LastKeys) = 2)
    => /\ last.result = Err("DestinationMissing", LastReduced.payment.to)
       /\ LastPost = last.pre

\* C8: a successful NewContract{tokens, plan} whose plan has no final payment
\* takes tokens from the source account, adds tokens to the contract account,
\* and leaves the contract account's userdata decoding to
\* {initialized: true, pending plan: plan}.
C8_NewContractEffects ==
    (LastInstruction.tag = "NewContract" /\ last.result = Ok
        /\ final_payment(LastInstruction.fin_plan[1]) = <<>>)
    => /\ LastPost[1].tokens = last.pre[1].tokens - LastInstruction.tokens
       /\ LastPost[2].tokens = last.pre[2].tokens + LastInstruction.tokens
       /\ deserialize(LastPost[2].userdata)
             = DecOk(FinPlanState(TRUE, LastInstruction.fin_plan))

\* a contract created with tokens that differ from its plan's payment
C8_Witness ==
    /\ LastInstruction.tag = "NewContract"
    /\ last.result = Ok
    /\ LastInstruction.fin_plan[1].tag = "After"
    /\ LastInstruction.tokens # LastInstruction.fin_plan[1].payment.tokens
    /\ LastPost[2].tokens = last.pre[2].tokens + LastInstruction.tokens

\* C20: for the last call, made with a well-formed instruction: a source
\* account with userdata gives SourceIsPendingContract(keys[0]) whatever the
\* instruction; otherwise a NewContract with tokens < 0 gives NegativeTokens;
\* otherwise a NewContract with more tokens than the source holds gives
\* InsufficientFunds(keys[0]); each of these leaves every account as it was;
\* and the source of a NewContract is debited (by exactly tokens) only when
\* none of the three applies.
C20_DebitLegality ==
    (tx_count > 0 /\ LastInstruction.tag # "Invalid") =>
       LET source == last.pre[1]
           pending == source.userdata # <<>>
           new_contract == LastInstruction.tag = "NewContract"
           negative == new_contract /\ LastInstruction.tokens < 0
           short == new_contract /\ source.tokens < LastInstruction.tokens
       IN  /\ pending =>
                 /\ last.result = Err("SourceIsPendingContract", LastKeys[1])
                 /\ LastPost = last.pre
           /\ (~pending /\ negative) =>
                 /\ last.result = Err("NegativeTokens", <<>>)
                 /\ LastPost = last.pre
           /\ (~pending /\ ~negative /\ short) =>
                 /\ last.result = Err("InsufficientFunds", LastKeys[1])
                 /\ LastPost = last.pre
           /\ (new_contract /\ LastPost[1].tokens # source.tokens) =>
                 /\ ~pending /\ ~negative /\ ~short
                 /\ LastPost[1].tokens = source.tokens - LastInstruction.tokens
           /\ (new_contract /\ ~pending /\ ~negative /\ ~short
                  /\ last.result # Panic) =>
                 LastPost[1].tokens = source.tokens - LastInstruction.tokens

\* a NewContract for more tokens than an earlier contract left in the source
\* account was refused
C20_Witness ==
    /\ tx_count > 1
    /\ LastInstruction.tag = "NewContract"
    /\ last.pre[1].userdata = <<>>
    /\ last.pre[1].tokens >= 1
    /\ last.pre[1].tokens < LastInstruction.tokens
    /\ last.result = Err("InsufficientFunds", FromKey)
    /\ LastPost = last.pre

\* the last call passed the debit phase
LastDebited ==
    /\ LastInstruction.tag # "Invalid"
    /\ last.pre[1].userdata = <<>>
    /\ LastInstruction.tag = "NewContract" =>
          /\ LastInstruction.tokens >= 0
          /\ last.pre[1].tokens >= LastInstruction.tokens

\* the account at position i of the last call held a contract state
\* (initialized, pending or completed) before the call
LastHeldContract(i) ==
    /\ deserialize(last.pre[i].userdata).ok
    /\ deserialize(last.pre[i].userdata).val.initialized

\* C21: a NewContract with a non-trivial plan on a contract account that
\* holds an initialized state leaves that account's tokens and userdata as
\* they were and, when it passes the debit phase, returns
\* ContractAlreadyExists(keys[1]); and the userdata of an account that holds
\* an initialized state is changed only by ApplyTimestamp and ApplySignature
\* naming it as keys[1].
C21_NoOverwrite ==
    tx_count > 0 =>
       /\ (/\ LastInstruction.tag = "NewContract"
           /\ final_payment(LastInstruction.fin_plan[1]) = <<>>
           /\ LastHeldContract(2)) =>
              /\ LastPost[2] = last.pre[2]
              /\ LastDebited =>
                    last.result = Err("ContractAlreadyExists", LastKeys[2])
       /\ \A i \in 1..Len(LastKeys) :
             (LastHeldContract(i) /\ LastPost[i].userdata # last.pre[i].userdata)
                => (LastIsWitness /\ i = 2)

\* a NewContract with a conditional plan was refused on a completed contract
C21_Witness ==
    /\ tx_count > 2
    /\ LastInstruction.tag = "NewContract"
    /\ final_payment(LastInstruction.fin_plan[1]) = <<>>
    /\ LastHeldContract(2)
    /\ ~is_pending(LastFound.val)
    /\ last.result = Err("ContractAlreadyExists", ContractKey)
    /\ LastPost[2] = last.pre[2]

\* C22: ApplyTimestamp or ApplySignature on a contract account whose
\* userdata FinPlanState::deserialize rejects changes no account and, when
\* the source account has no userdata (the debit phase lets it pass), returns
\* UninitializedContract(keys[1]).
C22_WitnessOnUninitialized ==
    (tx_count > 0 /\ LastIsWitness /\ ~LastFound.ok) =>
       /\ LastPost = last.pre
       /\ last.pre[1].userdata = <<>> =>
             last.result = Err("UninitializedContract", LastKeys[2])

\* a witness was refused on userdata that carries a length prefix L >= 2 and
\* is shorter than 8 + L
C22_Witness ==
    /\ tx_count > 0
    /\ LastIsWitness
    /\ Len(last.pre[2].userdata) >= 8
    /\ U64At(last.pre[2].userdata, 0) >= 2
    /\ Len(last.pre[2].userdata) < 8 + U64At(last.pre[2].userdata, 0)
    /\ last.result = Err("UninitializedContract", ContractKey)
    /\ LastPost = last.pre

\* C23: a successful NewContract{tokens, plan} whose plan is a payment right
\* away adds exactly tokens, the amount taken from the source account, to
\* accounts[1] and leaves the userdata of accounts[1] as it was.
C23_TrivialPlan ==
    (/\ tx_count > 0
     /\ LastInstruction.tag = "NewContract"
     /\ last.result = Ok
     /\ final_payment(LastInstruction.fin_plan[1]) # <<>>)
    => /\ LastPost[1].tokens = last.pre[1].tokens - LastInstruction.tokens
       /\ LastPost[2].tokens = last.pre[2].tokens + LastInstruction.tokens
       /\ LastPost[2].userdata = last.pre[2].userdata

\* C24: a witness transaction that reduces the pending plan to a payment
\* whose destination is keys[2] succeeds, takes the payment's tokens from
\* accounts[1], adds them to accounts[2], leaves accounts[0] as it was, and
\* leaves accounts[1].userdata decoding to {initialized, no pending plan}.
C24_Finalization ==
    (/\ tx_count > 0
     /\ LastReducesToPayment
     /\ Len(LastKeys) >= 3
     /\ LastReduced.payment.to = LastKeys[3])
    => /\ last.result = Ok
       /\ LastPost[2].tokens = last.pre[2].tokens - LastReduced.payment.tokens
       /\ LastPost[3].tokens = last.pre[3].tokens + LastReduced.payment.tokens
       /\ LastPost[3].userdata = last.pre[3].userdata
       /\ LastPost[1] = last.pre[1]
       /\ deserialize(LastPost[2].userdata) = DecOk(FinPlanState(TRUE, <<>>))

\* a timestamp completed a contract and paid its destination
C24_Witness ==
    /\ tx_count > 1
    /\ LastInstruction.tag = "ApplyTimestamp"
    /\ LastReducesToPayment
    /\ LastKeys = <<FromKey, ContractKey, ToKey>>
    /\ last.result = Ok
    /\ LastPost[3].tokens = last.pre[3].tokens + 1
    /\ LastPost[2].tokens = last.pre[2].tokens - 1
    /\ ~is_pending(deserialize(LastPost[2].userdata).val)

\* C25: a witness transaction on an initialized pending contract whose plan
\* does not become a payment under that witness succeeds, leaves the tokens
\* of every account as they were, and leaves the contract pending, with the
\* plan as the witness left it.
C25_NonFinalizingWitness ==
    (/\ tx_count > 0
     /\ LastWitnessApplied
     /\ final_payment(LastReduced) = <<>>)
    => /\ last.result = Ok
       /\ TokensOf(LastPost) = TokensOf(last.pre)
       /\ LastPost[1] = last.pre[1]
       /\ deserialize(LastPost[2].userdata)
             = DecOk(FinPlanState(TRUE, <<LastReduced>>))

\* the destination signed a contract that waits for the source's signature:
\* nothing moved and the plan is as it was
C25_Witness ==
    /\ tx_count > 1
    /\ LastInstruction.tag = "ApplySignature"
    /\ LastKeys = <<ToKey, ContractKey, FromKey>>
    /\ LastWitnessApplied
    /\ LastFound.val.pending_fin_plan[1].tag = "Or"
    /\ LastReduced = LastFound.val.pending_fin_plan[1]
    /\ last.result = Ok
    /\ LastPost = last.pre

\* userdata that decodes to a completed contract: initialized, nothing pending
Completed(userdata) ==
    /\ deserialize(userdata).ok
    /\ deserialize(userdata).val.initialized
    /\ ~is_pending(deserialize(userdata).val)

\* C26: an account whose userdata decodes to a completed contract keeps
\* decoding to a completed contract through every call; and a witness
\* transaction on such an account changes no account and, when the source
\* account has no userdata, returns ContractNotPending(keys[1]).
C26_CompletedAbsorbing ==
    [][/\ \A k \in Pubkeys :
             Completed(world[k].userdata) => Completed(world'[k].userdata)
       /\ (LastIsWitness' /\ Completed(last'.pre[2].userdata)) =>
             /\ LastPost' = last'.pre
             /\ last'.pre[1].userdata = <<>> =>
                   last'.result = Err("ContractNotPending", LastKeys'[2])]_vars

\* a timestamp was refused on a contract that a signature had completed
\* two calls earlier
C26_Witness ==
    /\ tx_count > 2
    /\ LastInstruction.tag = "ApplyTimestamp"
    /\ Completed(last.pre[2].userdata)
    /\ last.replay_of = NoReplay
    /\ world[ToKey].tokens > 0
    /\ last.result = Err("ContractNotPending", ContractKey)
    /\ LastPost = last.pre

\* the sum of the tokens of an account vector
RECURSIVE SumTokens(_)
SumTokens(accounts) ==
    IF accounts = <<>> THEN 0
    ELSE Head(accounts).tokens + SumTokens(Tail(accounts))

\* C31: a process_transaction call that returns success leaves the sum of
\* the tokens of the accounts it was given unchanged.
C31_TokenConservation ==
    (tx_count > 0 /\ last.result = Ok)
    => SumTokens(LastPost) = SumTokens(last.pre)

\* C32: from accounts whose tokens are all non-negative, after a run of
\* process_transaction calls that all returned success no account's tokens
\* is negative.
C32_NoNegativeBalance ==
    (tx_count > 0 /\ all_succeeded)
    => \A k \in Pubkeys : world[k].tokens >= 0

(***************************************************************************)
(* Specification SpecDBR: recv_mmsg (recvmmsg.rs) called repeatedly on one *)
(* bound UDP socket with one packet slice, while datagrams arrive.  The    *)
(* portable recv_mmsg (11-35) runs one recv_from per step; the linux one   *)
(* (38-84) is one recvmmsg system call.  Datagrams are numbered in arrival *)
(* order and carry their number as payload.  Sources are IPv4 addresses,   *)
(* as InetAddr::V4 (73) takes them to be, no datagram is longer than a     *)
(* packet's data buffer, and the socket starts in blocking mode, as        *)
(* UdpSocket::bind leaves it.                                              *)
(***************************************************************************)
\* Packet::default()
DefaultPacket == [data |-> 0, size |-> 0, addr |-> "0.0.0.0:0"]

\* the slice lengths explored, around NUM_RCVMMSGS
SliceLens == {0, 1, NUM_RCVMMSGS, 2 * NUM_RCVMMSGS}

\* what the network delivers: one sender followed by another
\* (test_recv_mmsg_multi_addrs, 141-183); two senders taking turns with
\* datagrams of two lengths
Traffics ==
    {[n \in 1..MaxDatagrams |->
        [data |-> n, size |-> 2,
         addr |-> IF n < NUM_RCVMMSGS THEN "saddr1" ELSE "saddr2"]],
     [n \in 1..MaxDatagrams |->
        [data |-> n, size |-> 1 + (n % 2),
         addr |-> IF n % 2 = 1 THEN "saddr1" ELSE "saddr2"]]}

DbrInit ==
    /\ dbr_pc = "ready"
    /\ target_os \in {"linux", "other"}
    /\ traffic \in Traffics
    /\ socket = <<>>
    /\ nonblocking = FALSE
    /\ dbr_sent = 0
    /\ \E m \in SliceLens : packets = [j \in 1..m |-> DefaultPacket]
    /\ dbr_i = 0
    /\ dbr_call = NoDbrCall
    /\ delivered = <<>>
    /\ dbr_calls = 0
    /\ dbr_faults = 0

\* a receiver that takes the whole slice in one call
count_uncapped(packets_len) == packets_len

\* recvmmsg.rs:14 and 52: cmp::min(NUM_RCVMMSGS, packets.len())
count(packets_len) == Min(NUM_RCVMMSGS, packets_len)

\* a receiver that leaves the source address of a slot as it was
received_without_addr(p, d) == [data |-> d.data, size |-> d.size, addr |-> p.addr]

\* recvmmsg.rs:17 and 24-26 (linux: 55-56 and 70-75): the datagram's payload
\* goes to p.data, its length to p.meta.size, its source to p.meta.addr
received(p, d) == [data |-> d.data, size |-> d.size, addr |-> d.addr]

\* a receiver that leaves the socket's mode alone after the first datagram
mode_unchanged(i, mode) == mode

\* recvmmsg.rs:27-29: if i == 0 { socket.set_nonblocking(true)?; }
mode_after_receive(i, mode) == IF i = 0 THEN TRUE ELSE mode

\* a socket operation succeeds or fails (at most MaxFaults failures of
\* operations that could have succeeded are explored)
SocketOps == IF dbr_faults < MaxFaults THEN BOOLEAN ELSE {TRUE}

\* the record of a call that begins now
BeginCall ==
    [q0 |-> socket, before |-> packets, mode |-> nonblocking, taken |-> <<>>,
     arrivals |-> 0, failed |-> {}, result |-> "running", k |-> 0]

\* the payloads in the first k slots of a slice
Filled(slice, k) == [j \in 1..k |-> slice[j].data]

\* the call returns Ok(k) with the slice as it now is
ReturnOk(call, slice, k) ==
    /\ dbr_call' = [call EXCEPT !.result = "Ok", !.k = k]
    /\ delivered' = delivered \o Filled(slice, k)
    /\ dbr_pc' = "ready"

\* the call returns Err because operation op failed
ReturnErr(call, op) ==
    /\ dbr_call' = [call EXCEPT !.result = "Err", !.failed = @ \cup {op}]
    /\ dbr_pc' = "ready"
    /\ UNCHANGED delivered

\* recvmmsg.rs:17-20 and 32-34: a recv_from error after i > 0 datagrams
\* breaks out of the loop, and the call returns Ok(i)
break_on_error(call, slice, i, op) ==
    ReturnOk([call EXCEPT !.failed = @ \cup {op}], slice, i)

\* a datagram arrives on the socket
Arrive ==
    /\ dbr_pc # "idle"
    /\ dbr_sent < MaxDatagrams
    /\ socket' = Append(socket, traffic[dbr_sent + 1])
    /\ dbr_sent' = dbr_sent + 1
    /\ dbr_call' = IF dbr_pc = "loop"
                   THEN [dbr_call EXCEPT !.arrivals = @ + 1]
                   ELSE dbr_call
    /\ UNCHANGED <<dbr_pc, target_os, traffic, nonblocking, packets, dbr_i,
                   delivered, dbr_calls, dbr_faults>>
    /\ UNCHANGED <<fl_vars, ws_vars, ser_vars, fce_vars>>

\* recvmmsg.rs:12-15: i = 0, set_nonblocking(false)?, count; a slice that
\* gives count = 0 makes the call return Ok(0) at once
PortableBegin ==
    /\ dbr_pc = "ready"
    /\ target_os = "other"
    /\ dbr_calls < MaxDbrCalls
    /\ dbr_calls' = dbr_calls + 1
    /\ dbr_i' = 0
    /\ \E mode_ok \in SocketOps :
          IF ~mode_ok
          THEN /\ ReturnErr(BeginCall, "set_nonblocking(false)")
               /\ dbr_faults' = dbr_faults + 1
               /\ UNCHANGED nonblocking
          ELSE /\ nonblocking' = FALSE
               /\ UNCHANGED dbr_faults
               /\ IF count(Len(packets)) = 0
                  THEN ReturnOk(BeginCall, packets, 0)
                  ELSE /\ dbr_call' = BeginCall
                       /\ dbr_pc' = "loop"
                       /\ UNCHANGED delivered
    /\ UNCHANGED <<target_os, traffic, socket, dbr_sent, packets>>
    /\ UNCHANGED <<fl_vars, ws_vars, ser_vars, fce_vars>>

\* recvmmsg.rs:15-34: one iteration of the loop, and the return when it was
\* the last.  recv_from fails on an empty socket (WouldBlock in non-blocking
\* mode; in blocking mode the call waits for a datagram, or fails when the
\* socket's read timeout expires) and may fail otherwise.
PortableRecv ==
    /\ dbr_pc = "loop"
    /\ LET i == dbr_i
           zeroed == [packets EXCEPT ![i + 1].size = 0]
       IN  \/ /\ socket # <<>>
              /\ socket' = Tail(socket)
              /\ packets' = [zeroed EXCEPT ![i + 1] = received(@, Head(socket))]
              /\ dbr_i' = i + 1
              /\ LET call == [dbr_call EXCEPT !.taken = Append(@, Head(socket))]
                 IN  \E mode_ok \in (IF i = 0 THEN SocketOps ELSE {TRUE}) :
                        IF ~mode_ok
                        THEN /\ ReturnErr(call, "set_nonblocking(true)")
                             /\ dbr_faults' = dbr_faults + 1
                             /\ UNCHANGED nonblocking
                        ELSE /\ nonblocking' = mode_after_receive(i, nonblocking)
                             /\ UNCHANGED dbr_faults
                             /\ IF i + 1 = count(Len(packets))
                                THEN ReturnOk(call, packets', i + 1)
                                ELSE /\ dbr_call' = call
                                     /\ UNCHANGED <<dbr_pc, delivered>>
           \/ /\ socket = <<>> \/ dbr_faults < MaxFaults
              /\ dbr_faults' = IF socket = <<>> THEN dbr_faults ELSE dbr_faults + 1
              /\ packets' = zeroed
              /\ IF i > 0
                 THEN break_on_error(dbr_call, zeroed, i, "recv_from")
                 ELSE ReturnErr(dbr_call, "recv_from")
              /\ UNCHANGED <<socket, nonblocking, dbr_i>>
    /\ UNCHANGED <<target_os, traffic, dbr_sent, dbr_calls>>
    /\ UNCHANGED <<fl_vars, ws_vars, ser_vars, fce_vars>>

\* recvmmsg.rs:38-84: the linux recv_mmsg: one recvmmsg call with
\* MSG_WAITFORONE for count datagrams.  It returns the number of datagrams
\* it took (those queued, up to count), or -1: on an empty socket (EAGAIN in
\* non-blocking mode; in blocking mode the call waits for a datagram, or
\* fails when the socket's read timeout expires), and when it fails
\* otherwise.
LinuxRecvMmsg ==
    /\ dbr_pc = "ready"
    /\ target_os = "linux"
    /\ dbr_calls < MaxDbrCalls
    /\ dbr_calls' = dbr_calls + 1
    /\ LET n == Min(count(Len(packets)), Len(socket))
           filled == [j \in 1..Len(packets) |->
                         IF j <= n THEN received(packets[j], socket[j])
                                   ELSE packets[j]]
       IN  \/ /\ socket # <<>> \/ count(Len(packets)) = 0
              /\ socket' = SubSeq(socket, n + 1, Len(socket))
              /\ packets' = filled
              /\ ReturnOk([BeginCall EXCEPT !.taken = SubSeq(socket, 1, n)],
                          filled, n)
              /\ UNCHANGED dbr_faults
           \/ /\ count(Len(packets)) > 0
              /\ socket = <<>> \/ dbr_faults < MaxFaults
              /\ dbr_faults' = IF socket = <<>> THEN dbr_faults ELSE dbr_faults + 1
              /\ ReturnErr(BeginCall, "recvmmsg")
              /\ UNCHANGED <<socket, packets>>
    /\ UNCHANGED <<target_os, traffic, nonblocking, dbr_sent, dbr_i>>
    /\ UNCHANGED <<fl_vars, ws_vars, ser_vars, fce_vars>>

InitDBR == DbrInit /\ FlIdle /\ WsIdle /\ SerIdle /\ FceIdle
NextDBR ==
    \/ Arrive
    \/ PortableBegin
    \/ PortableRecv
    \/ LinuxRecvMmsg
SpecDBR == InitDBR /\ [][NextDBR]_vars

\* C17: a call that returns Ok(k) has 0 <= k <= min(16, slice length), and no
\* call, whatever it returns, changes a slot at or beyond min(16, slice
\* length).
C17_Cap ==
    /\ dbr_call.result = "Ok" =>
          /\ dbr_call.k >= 0
          /\ dbr_call.k <= NUM_RCVMMSGS
          /\ dbr_call.k <= Len(packets)
    /\ dbr_call.result # "none" =>
          /\ Len(packets) = Len(dbr_call.before)
          /\ \A j \in 1..Len(packets) :
                (j > NUM_RCVMMSGS) => packets[j] = dbr_call.before[j]

\* a call on a slice of 32 slots returned Ok(16) and left datagrams queued
C17_Witness ==
    /\ dbr_call.result = "Ok"
    /\ dbr_call.k = NUM_RCVMMSGS
    /\ Len(packets) = 2 * NUM_RCVMMSGS
    /\ Len(dbr_call.q0) > NUM_RCVMMSGS
    /\ socket # <<>>

\* the payloads of a sequence of datagrams
Payloads(datagrams) == [j \in 1..Len(datagrams) |-> datagrams[j].data]

\* C18: as long as no socket operation has failed for a reason other than
\* an empty queue, a call that began with q >= 1 datagrams queued and
\* returned Ok(k) has k >= min(16, m, q), with equality when no datagram
\* arrived during the call; the first k slots hold, in order, exactly the
\* datagrams the call took from the socket, which are the oldest ones; and
\* the datagrams delivered so far followed by those still queued are all the
\* datagrams that arrived, in arrival order.
C18_Batching ==
    dbr_faults = 0 =>
       /\ (dbr_call.result = "Ok" /\ Len(dbr_call.q0) >= 1) =>
             /\ dbr_call.k >= Min(Min(NUM_RCVMMSGS, Len(packets)), Len(dbr_call.q0))
             /\ dbr_call.k <= Min(Min(NUM_RCVMMSGS, Len(packets)),
                                  Len(dbr_call.q0) + dbr_call.arrivals)
             /\ dbr_call.taken = SubSeq(packets, 1, dbr_call.k)
             /\ \A j \in 1..Min(dbr_call.k, Len(dbr_call.q0)) :
                   /\ packets[j].size = dbr_call.q0[j].size
                   /\ packets[j].addr = dbr_call.q0[j].addr
                   /\ packets[j].data = dbr_call.q0[j].data
       /\ dbr_pc = "ready" =>
             delivered \o Payloads(socket) = [n \in 1..dbr_sent |-> n]

\* 26 datagrams were queued before the first of two calls on a slice of 32
\* slots: the first call returned 16 and the second 10
C18_Witness ==
    /\ dbr_faults = 0
    /\ dbr_calls = 2
    /\ Len(packets) = 2 * NUM_RCVMMSGS
    /\ dbr_call.result = "Ok"
    /\ dbr_call.arrivals = 0
    /\ Len(dbr_call.q0) = 10
    /\ dbr_call.k = 10
    /\ Payloads(dbr_call.q0) = [j \in 1..10 |-> NUM_RCVMMSGS + j]
    /\ delivered = [n \in 1..(NUM_RCVMMSGS + 10) |-> n]
    /\ socket = <<>>

\* C19: a call of the portable recv_mmsg that took a datagram from the
\* socket returns Ok(k) with k >= 1, and a call that returns an error took
\* none.
C19_PartialSuccess ==
    (target_os = "other" /\ dbr_call.result \in {"Ok", "Err"}) =>
       /\ dbr_call.taken # <<>> => (dbr_call.result = "Ok" /\ dbr_call.k >= 1)
       /\ dbr_call.result = "Err" => dbr_call.taken = <<>>

\* C30 (as stated): in the portable recv_mmsg the socket is blocking before
\* the first receive of a call; a call that returns Ok(k) with k >= 1 leaves
\* it non-blocking; and a call that returns an error without having taken a
\* datagram leaves it blocking.
C30_SocketMode ==
    target_os = "other" =>
       /\ (dbr_pc = "loop" /\ dbr_i = 0) => ~nonblocking
       /\ (dbr_call.result = "Ok" /\ dbr_call.k >= 1) => nonblocking
       /\ (dbr_call.result = "Err" /\ dbr_call.taken = <<>>) => ~nonblocking

\* C30 (amended): as above, but a call that fails at set_nonblocking(false),
\* before any receive, leaves the socket in the mode it found; only a call
\* whose first recv_from fails is known to leave it blocking.  Within a call
\* the receives after the first run in non-blocking mode.
C30_SocketModeUnlessModeChangeFails ==
    target_os = "other" =>
       /\ (dbr_pc = "loop" /\ dbr_i = 0) => ~nonblocking
       /\ (dbr_pc = "loop" /\ dbr_i > 0) => nonblocking
       /\ (dbr_call.result = "Ok" /\ dbr_call.k >= 1) => nonblocking
       /\ (dbr_call.result = "Err" /\ dbr_call.taken = <<>>) =>
             IF "set_nonblocking(false)" \in dbr_call.failed
             THEN nonblocking = dbr_call.mode
             ELSE ~nonblocking

\* the second call failed at set_nonblocking(false) on the socket that the
\* first call had left non-blocking
C30_Witness ==
    /\ target_os = "other"
    /\ dbr_calls = 2
    /\ delivered # <<>>
    /\ dbr_call.result = "Err"
    /\ dbr_call.failed = {"set_nonblocking(false)"}
    /\ dbr_call.mode
    /\ nonblocking

====
